---- MODULE Spec2Model ----
(***************************************************************************)
(* Verification model of subnoto/pdfsign.                                  *)
(*                                                                         *)
(* Spec            external revocation checking (verify package):          *)
(*                 performExternalOCSPCheck / performExternalCRLCheck      *)
(* SpecHTTPClient  getHTTPClient / configureProxy                          *)
(* SpecMatch       matchFieldSigner (sign package, form-field filler)      *)
(* SpecDate        formatDateString (sign package, date fields)            *)
(***************************************************************************)
EXTENDS Integers, Sequences, FiniteSets, TLC

VARIABLES
    options,      \* *VerifyOptions handed to the check
    cert,         \* the certificate under check
    ocspReqErr,   \* whether ocsp.CreateRequest(cert, issuer) returns an error
    server,       \* what each URL's server answers (fixed once contacted)
    pc,           \* "idle" | "ocsp_loop" | "crl_loop"
    i,            \* index of the next URL of the range loop
    client,       \* the *http.Client of the running check
    lastErr,      \* the running check's lastErr
    result,       \* the running check's result
    requests,     \* HTTP requests issued by the current (or last) check
    calls,        \* the checks invoked so far, in order
    ocspResults,  \* ExternalOCSPResult returned by each OCSP check so far
    crlResults,   \* ExternalCRLResult returned by each CRL check so far
    httpClient,   \* SpecHTTPClient: the client getHTTPClient returned
    field,        \* SpecMatch: decoded field name, pattern, uid
    matched,      \* SpecMatch: what matchFieldSigner returned
    date,         \* SpecDate: the time.Time and layout
    dateString,   \* SpecDate: what formatDateString returned
    app,          \* SpecLayout: Appearance.DateFormat and Appearance.Locale
    dateLayout,   \* SpecLayout: what resolveDateLayout returned
    da,           \* SpecDA: a raw /DA string
    daOut,        \* SpecDA: what normalizeDA returned, applied once and twice
    rawName,      \* SpecDecode: a /T string, with the pattern and uid of the pass
    decoded,      \* SpecDecode: what decodeFieldName and matchFieldSigner returned
    widget,       \* SpecAppearance: the text, rectangle and /DA of a widget
    appearance,   \* SpecAppearance: what createTextFieldAppearance returned,
                  \* without and with the date fields' font scale
    signData,     \* SpecFill: context.SignData (signer uid, name, date, formats)
    doc,          \* SpecFill: the document read by context.PDFReader
    updateErrs,   \* SpecFillErr: the objects for which context.updateObject fails
    fillPass,     \* SpecFill: the running fill pass (pattern, value, scale), or Nil
    fieldIdx,     \* SpecFill: the loop variable i of fillFormFields
    added,        \* SpecFill: the objects added by context.addObject, in order
    updated,      \* SpecFill: the calls of context.updateObject, in order
    passes,       \* SpecFill: the fill passes that returned, in order
    sigApp,       \* SpecSigAppearance: the rectangle, image, watermark flag and name
    sigOut,       \* SpecSigAppearance: what createAppearance returned
    pixel,        \* SpecPixel: a premultiplied colour (r, g, b, a)
    pixelOut      \* SpecPixel: what unpremultiply and unpremultiply64 returned

vars == <<options, cert, ocspReqErr, server, pc, i, client, lastErr, result,
          requests, calls, ocspResults, crlResults, httpClient, field, matched,
          date, dateString, app, dateLayout,
          da, daOut, rawName, decoded, widget, appearance,
          signData, doc, updateErrs, fillPass, fieldIdx, added, updated, passes,
          sigApp, sigOut, pixel, pixelOut>>

revVars == <<options, cert, ocspReqErr, server, pc, i, client, lastErr, result,
             requests, calls, ocspResults, crlResults>>

layoutVars == <<app, dateLayout>>
\* The variables of the form-field filler's specifications.
daVars == <<da, daOut>>
nameVars == <<rawName, decoded>>
apVars == <<widget, appearance>>
fillVars == <<signData, doc, updateErrs, fillPass, fieldIdx, added, updated, passes>>
\* The variables of the signature appearance's specifications.
imgVars == <<sigApp, sigOut, pixel, pixelOut>>
signVars == <<layoutVars, daVars, nameVars, apVars, fillVars, imgVars>>

(***************************************************************************)
(* Bounds of the model.                                                    *)
(***************************************************************************)
MaxURLs == 2          \* URLs a certificate lists per category
MaxCRLEntries == 2    \* entries of a downloaded CRL
MaxCalls == 3         \* checks invoked on the certificate in one behaviour

(***************************************************************************)
(* Go values.                                                              *)
(***************************************************************************)
Second == 1                       \* durations are counted in seconds
DefaultTimeoutSeconds == 10       \* 10 * time.Second
StatusOK == 200                   \* http.StatusOK

Nil == <<>>                       \* a nil pointer / nil error
Ptr(v) == <<v>>                   \* a non-nil pointer to v, an error value v

(***************************************************************************)
(* http.Client, http.Transport and VerifyOptions.                          *)
(* Transport.kind: "nil" (no transport), "http.Transport", or "other" (a   *)
(* RoundTripper that is not a *http.Transport).  Proxy names the proxy     *)
(* function: "none", "env" (http.ProxyFromEnvironment), "own" (whatever    *)
(* the caller installed) or the explicit proxy URL.                        *)
(***************************************************************************)
NilTransport == [kind |-> "nil", Proxy |-> "none"]
DefaultTransport == [kind |-> "http.Transport", Proxy |-> "env"]
NilClient == [isNil |-> TRUE, Timeout |-> 0, Transport |-> NilTransport]

\* Mutant: the explicit ProxyURL is ignored.
configureProxyMutEnvOnly(transport, opts) == [transport EXCEPT !.Proxy = "env"]
\* configureProxy: explicit ProxyURL first, the environment otherwise.
configureProxy(transport, opts) ==
    IF opts.ProxyURL # Nil
    THEN [transport EXCEPT !.Proxy = opts.ProxyURL[1]]
    ELSE [transport EXCEPT !.Proxy = "env"]

\* Mutant: the zero value is not replaced by the default.
effectiveTimeoutMutKeepZero(opts) == opts.HTTPTimeout
\* timeout := options.HTTPTimeout; if timeout == 0 { timeout = 10 * time.Second }
effectiveTimeout(opts) ==
    IF opts.HTTPTimeout = 0 THEN DefaultTimeoutSeconds * Second ELSE opts.HTTPTimeout

\* The objects getHTTPClient can reach, by address: the caller's client
\* ("client", whose Transport field holds an address), the caller's transport
\* ("transport"), http.DefaultTransport ("default"), and the two objects the
\* function allocates: its local client ("copy") and the cloned transport
\* ("clone").
callerObjects(opts) ==
    [client |-> [isNil |-> opts.HTTPClient.isNil,
                 Timeout |-> opts.HTTPClient.Timeout,
                 Transport |-> IF opts.HTTPClient.Transport.kind = "nil"
                               THEN "nil" ELSE "transport"],
     transport |-> opts.HTTPClient.Transport,
     default |-> DefaultTransport,
     copy |-> [isNil |-> TRUE, Timeout |-> 0, Transport |-> "nil"],
     clone |-> NilTransport]

\* Mutant: the transport is configured in place instead of being cloned.
clonedTransportMutSame(from) == from
\* transport.Clone() returns a new object.
clonedTransport(from) == "clone"

\* t := from.Clone(); configureProxy(t, options); client.Transport = t
withProxy(h, from, opts) ==
    [h EXCEPT ![clonedTransport(from)] = configureProxy(h[from], opts),
              !.copy.Transport = clonedTransport(from)]

\* client := *options.HTTPClient; client.Timeout = timeout
copyClient(h, timeout) ==
    [h EXCEPT !.copy = [h.client EXCEPT !.Timeout = timeout]]

\* &http.Client{Timeout: timeout, ...}
newClient(h, timeout) ==
    [h EXCEPT !.copy = [isNil |-> FALSE, Timeout |-> timeout, Transport |-> "nil"]]

\* The transport of the local client: a configured clone of the default
\* transport when there is none, a configured clone of a *http.Transport,
\* any other RoundTripper as it is.
configureTransport(h, opts) ==
    IF h.copy.Transport = "nil"
    THEN withProxy(h, "default", opts)
    ELSE IF h[h.copy.Transport].kind = "http.Transport"
         THEN withProxy(h, h.copy.Transport, opts)
         ELSE h

\* The objects after getHTTPClient(options) has run; it returns &copy.
getHTTPClientObjects(opts) ==
    IF ~opts.HTTPClient.isNil
    THEN configureTransport(copyClient(callerObjects(opts), effectiveTimeout(opts)), opts)
    ELSE withProxy(newClient(callerObjects(opts), effectiveTimeout(opts)), "default", opts)

\* The client stored at an address, with its transport read through the
\* Transport field.
clientAt(h, addr) ==
    [isNil |-> h[addr].isNil,
     Timeout |-> h[addr].Timeout,
     Transport |-> IF h[addr].Transport = "nil" THEN NilTransport
                   ELSE h[h[addr].Transport]]

\* getHTTPClient: a copy of the caller's client (or a new one) with the timeout
\* and, where the transport is a *http.Transport or missing, the proxy set.
getHTTPClient(opts) == clientAt(getHTTPClientObjects(opts), "copy")

(***************************************************************************)
(* Errors and warnings.  An error built by fmt.Errorf is kept as its       *)
(* format string and arguments: the URL, the status code (%d) and the      *)
(* wrapped error (%v).                                                     *)
(***************************************************************************)
Err(msg, url, status, err) == [msg |-> msg, url |-> url, status |-> status, err |-> err]
NoWarning == Err("", "", 0, "")

WarnDisabled == Err("external revocation checking is disabled", "", 0, "")
WarnNoOCSPURLs == Err("certificate has no OCSP server URLs", "", 0, "")
WarnNoCRLURLs == Err("certificate has no CRL distribution points", "", 0, "")
WarnCreateRequest == Err("failed to create OCSP request: %v", "", 0, "create request error")
WarnAllOCSP == Err("failed to retrieve OCSP response from all servers", "", 0, "")
WarnAllCRL == Err("failed to retrieve CRL from all distribution points", "", 0, "")
ErrCloseBody == Err("failed to close response body: %v", "", 0, "close error")

(***************************************************************************)
(* The certificate and the servers behind its URLs.                        *)
(***************************************************************************)
OCSPURLs == <<"http://ocsp1", "http://ocsp2", "http://ocsp3", "http://ocsp4">>
CRLURLs == <<"http://crl1", "http://crl2", "http://crl3", "http://crl4">>
CertSerial == 12345
OtherSerial == CertSerial + 1

Prefixes(list) == {SubSeq(list, 1, n) : n \in 0..MaxURLs}

TransportErrors == {"timeout"}
BadStatus == {500}

\* A CRL: its RevokedCertificateEntries.  The k-th entry is revoked at time k,
\* so that the entry a RevocationTime was taken from can be told.
CRLs ==
    UNION {{[k \in 1..n |-> [SerialNumber |-> ser[k], RevocationTime |-> k]] :
               ser \in [1..n -> {CertSerial, OtherSerial}]} : n \in 0..MaxCRLEntries}

\* What a server does with a request: a transport error (client.Post/Get
\* returns err), or a response with a status, a body that may fail to read,
\* and content that may fail to parse.
Answer(err, status, readErr, parseErr, entries) ==
    [err |-> err, StatusCode |-> status, readErr |-> readErr,
     parseErr |-> parseErr, entries |-> entries]
FailAnswers ==
    {Answer(e, 0, FALSE, FALSE, <<>>) : e \in TransportErrors}
    \cup {Answer("", st, FALSE, FALSE, <<>>) : st \in BadStatus}
    \cup {Answer("", StatusOK, TRUE, FALSE, <<>>), Answer("", StatusOK, FALSE, TRUE, <<>>)}
OCSPAnswers == FailAnswers \cup {Answer("", StatusOK, FALSE, FALSE, <<>>)}
CRLAnswers == FailAnswers \cup {Answer("", StatusOK, FALSE, FALSE, crl) : crl \in CRLs}

\* Mutant: the status code of the response is not looked at.
AnswerFailsMutIgnoreStatus(a) == a.err # "" \/ a.readErr \/ a.parseErr
AnswerFails(a) == a.err # "" \/ a.StatusCode # StatusOK \/ a.readErr \/ a.parseErr

\* The answers a request to url may get: the one the server already gave, or
\* any answer when the server is contacted for the first time.
Served(cat, url, all) == IF server[cat][url] = Nil THEN all ELSE {server[cat][url][1]}

(***************************************************************************)
(* Results.                                                                *)
(***************************************************************************)
NewOCSPResult == [Checked |-> FALSE, Valid |-> FALSE, Response |-> Nil, Warning |-> NoWarning]
NewCRLResult ==
    [Checked |-> FALSE, Valid |-> FALSE, IsRevoked |-> FALSE,
     RevocationTime |-> Nil, Warning |-> NoWarning]

Triple(r) == [Checked |-> r.Checked, Valid |-> r.Valid, Warning |-> r.Warning]

(***************************************************************************)
(* Returning from a check.  `return result` copies the local result; the   *)
(* deferred resp.Body.Close() closures run afterwards and can only assign  *)
(* the local lastErr.                                                      *)
(***************************************************************************)
\* Responses opened by the check: one deferred Close per request that got one.
Opened == {k \in 1..Len(requests) : requests[k].answer.err = ""}

\* lastErr once the deferred closures have run.
AfterDefers(err, closeFails) == IF closeFails THEN Ptr(ErrCloseBody) ELSE err

\* Mutant: the result is a named return value the deferred closures write to.
ReturnedMutDeferWrites(res, errAfterDefers) ==
    IF errAfterDefers # Nil THEN [res EXCEPT !.Warning = errAfterDefers[1]] ELSE res
\* Mutant: a failure of the other category's last check masks this result.
ReturnedMutMasked(res, errAfterDefers) ==
    LET other == IF "IsRevoked" \in DOMAIN res THEN ocspResults ELSE crlResults IN
    IF other # <<>> /\ ~other[Len(other)].Valid
    THEN [res EXCEPT !.Valid = FALSE, !.Warning = other[Len(other)].Warning]
    ELSE res
Returned(res, errAfterDefers) == res

\* Result.Warning when the loop ends without a parseable response.
\* Mutant: the first failure is kept instead of the last.
allFailedMutFirstError(err, fallback) ==
    IF requests # <<>> THEN requests[1].err ELSE fallback
allFailed(err, fallback) == IF err # Nil THEN err[1] ELSE fallback

\* Pops the frame of the running check.
PopFrame ==
    /\ pc' = "idle"
    /\ i' = 0
    /\ client' = NilClient
    /\ lastErr' = Nil
    /\ result' = NewOCSPResult

\* A check of category cat may be invoked: the caller is idle, and checks of
\* the two categories alternate.
CanCall(cat) ==
    /\ pc = "idle"
    /\ Len(calls) < MaxCalls
    /\ (IF calls = <<>> THEN TRUE ELSE calls[Len(calls)] # cat)

(***************************************************************************)
(* performExternalOCSPCheck.                                               *)
(***************************************************************************)
\* The failure of one loop iteration, as assigned to lastErr.
ocspFailure(url, a) ==
    IF a.err # "" THEN Err("failed to contact OCSP server %s: %v", url, 0, a.err)
    ELSE IF a.StatusCode # StatusOK
         THEN Err("OCSP server %s returned status %d", url, a.StatusCode, "")
    ELSE IF a.readErr THEN Err("failed to read OCSP response from %s: %v", url, 0, "read error")
    ELSE Err("failed to parse OCSP response from %s: %v", url, 0, "parse error")

\* The early returns: disabled first, then no URLs, then the request.
\* Mutant: the missing-URL test comes before the disabled test.
ocspEarlyMutURLsFirst(opts, c, reqErr) ==
    IF Len(c.OCSPServer) = 0 THEN Ptr(WarnNoOCSPURLs)
    ELSE IF ~opts.EnableExternalRevocationCheck THEN Ptr(WarnDisabled)
    ELSE IF reqErr THEN Ptr(WarnCreateRequest)
    ELSE Nil
ocspEarly(opts, c, reqErr) ==
    IF ~opts.EnableExternalRevocationCheck THEN Ptr(WarnDisabled)
    ELSE IF Len(c.OCSPServer) = 0 THEN Ptr(WarnNoOCSPURLs)
    ELSE IF reqErr THEN Ptr(WarnCreateRequest)
    ELSE Nil

\* Entry of performExternalOCSPCheckWithFunc up to the loop.
OCSPStart ==
    /\ CanCall("ocsp")
    /\ calls' = Append(calls, "ocsp")
    /\ requests' = <<>>
    /\ LET early == ocspEarly(options, cert, ocspReqErr) IN
       IF early # Nil
       THEN /\ ocspResults' = Append(ocspResults,
                    [NewOCSPResult EXCEPT !.Checked = TRUE, !.Warning = early[1]])
            /\ PopFrame
       ELSE /\ result' = [NewOCSPResult EXCEPT !.Checked = TRUE]
            /\ client' = getHTTPClient(options)
            /\ lastErr' = Nil
            /\ i' = 1
            /\ pc' = "ocsp_loop"
            /\ UNCHANGED ocspResults
    /\ UNCHANGED <<options, cert, ocspReqErr, server, crlResults>>

\* One iteration of `for _, serverURL := range cert.OCSPServer`.
OCSPTryURL ==
    /\ pc = "ocsp_loop"
    /\ i <= Len(cert.OCSPServer)
    /\ LET url == cert.OCSPServer[i] IN
       \E a \in Served("ocsp", url, OCSPAnswers), closeFails \in BOOLEAN :
          /\ server' = [server EXCEPT !["ocsp"][url] = Ptr(a)]
          /\ requests' = Append(requests,
                 [method |-> "POST", url |-> url, client |-> client, answer |-> a,
                  err |-> ocspFailure(url, a)])
          /\ IF AnswerFails(a)
             THEN /\ lastErr' = Ptr(ocspFailure(url, a))
                  /\ i' = i + 1
                  /\ UNCHANGED <<pc, client, result, ocspResults>>
             ELSE /\ ocspResults' = Append(ocspResults,
                          Returned([result EXCEPT !.Valid = TRUE, !.Response = Ptr(url)],
                                   AfterDefers(lastErr, closeFails)))
                  /\ PopFrame
    /\ UNCHANGED <<options, cert, ocspReqErr, calls, crlResults>>

\* After the loop: all attempts failed.
OCSPAllFailed ==
    /\ pc = "ocsp_loop"
    /\ i > Len(cert.OCSPServer)
    /\ \E closeFails \in {FALSE} \cup {Opened # {}} :
          ocspResults' = Append(ocspResults,
              Returned([result EXCEPT !.Warning = allFailed(lastErr, WarnAllOCSP)],
                       AfterDefers(lastErr, closeFails)))
    /\ PopFrame
    /\ UNCHANGED <<options, cert, ocspReqErr, server, requests, calls, crlResults>>

(***************************************************************************)
(* performExternalCRLCheck.                                                *)
(***************************************************************************)
crlFailure(url, a) ==
    IF a.err # "" THEN Err("failed to download CRL from %s: %v", url, 0, a.err)
    ELSE IF a.StatusCode # StatusOK
         THEN Err("CRL server %s returned status %d", url, a.StatusCode, "")
    ELSE IF a.readErr THEN Err("failed to read CRL from %s: %v", url, 0, "read error")
    ELSE Err("failed to parse CRL from %s: %v", url, 0, "parse error")

crlEarly(opts, c) ==
    IF ~opts.EnableExternalRevocationCheck THEN Ptr(WarnDisabled)
    ELSE IF Len(c.CRLDistributionPoints) = 0 THEN Ptr(WarnNoCRLURLs)
    ELSE Nil

\* The entries of crl with the certificate's serial number.
Matching(crl, serial) == {k \in 1..Len(crl) : crl[k].SerialNumber = serial}

\* `for _, revokedCert := range crl.RevokedCertificateEntries`: the first
\* entry with the certificate's serial number marks it revoked.
\* Mutant: the time is read through a pointer to a loop variable that has
\* moved on to the last entry.
crlScanMutLastEntry(res, crl, serial) ==
    IF Matching(crl, serial) = {}
    THEN [res EXCEPT !.Valid = TRUE]
    ELSE [res EXCEPT !.Valid = TRUE, !.IsRevoked = TRUE,
                     !.RevocationTime = Ptr(crl[Len(crl)].RevocationTime)]
crlScan(res, crl, serial) ==
    IF Matching(crl, serial) = {}
    THEN [res EXCEPT !.Valid = TRUE]
    ELSE LET k == CHOOSE m \in Matching(crl, serial) :
                      \A n \in Matching(crl, serial) : m <= n
         IN [res EXCEPT !.Valid = TRUE, !.IsRevoked = TRUE,
                        !.RevocationTime = Ptr(crl[k].RevocationTime)]

\* Entry of performExternalCRLCheck up to the loop.
CRLStart ==
    /\ CanCall("crl")
    /\ calls' = Append(calls, "crl")
    /\ requests' = <<>>
    /\ LET early == crlEarly(options, cert) IN
       IF early # Nil
       THEN /\ crlResults' = Append(crlResults,
                    [NewCRLResult EXCEPT !.Checked = TRUE, !.Warning = early[1]])
            /\ PopFrame
       ELSE /\ result' = [NewCRLResult EXCEPT !.Checked = TRUE]
            /\ client' = getHTTPClient(options)
            /\ lastErr' = Nil
            /\ i' = 1
            /\ pc' = "crl_loop"
            /\ UNCHANGED crlResults
    /\ UNCHANGED <<options, cert, ocspReqErr, server, ocspResults>>

\* One iteration of `for _, crlURL := range cert.CRLDistributionPoints`.
CRLTryURL ==
    /\ pc = "crl_loop"
    /\ i <= Len(cert.CRLDistributionPoints)
    /\ LET url == cert.CRLDistributionPoints[i] IN
       \E a \in Served("crl", url, CRLAnswers), closeFails \in BOOLEAN :
          /\ server' = [server EXCEPT !["crl"][url] = Ptr(a)]
          /\ requests' = Append(requests,
                 [method |-> "GET", url |-> url, client |-> client, answer |-> a,
                  err |-> crlFailure(url, a)])
          /\ IF AnswerFails(a)
             THEN /\ lastErr' = Ptr(crlFailure(url, a))
                  /\ i' = i + 1
                  /\ UNCHANGED <<pc, client, result, crlResults>>
             ELSE /\ crlResults' = Append(crlResults,
                          Returned(crlScan(result, a.entries, cert.SerialNumber),
                                   AfterDefers(lastErr, closeFails)))
                  /\ PopFrame
    /\ UNCHANGED <<options, cert, ocspReqErr, calls, ocspResults>>

\* After the loop: all attempts failed.
CRLAllFailed ==
    /\ pc = "crl_loop"
    /\ i > Len(cert.CRLDistributionPoints)
    /\ \E closeFails \in {FALSE} \cup {Opened # {}} :
          crlResults' = Append(crlResults,
              Returned([result EXCEPT !.Warning = allFailed(lastErr, WarnAllCRL)],
                       AfterDefers(lastErr, closeFails)))
    /\ PopFrame
    /\ UNCHANGED <<options, cert, ocspReqErr, server, requests, calls, ocspResults>>

(***************************************************************************)
(* Spec: one certificate, checked by alternating OCSP and CRL checks.      *)
(***************************************************************************)
\* The idle values of the variables the other specifications use.
IdleHTTPClient == httpClient = NilClient
IdleMatch == field = <<>> /\ matched = <<>>
IdleDate == date = <<>> /\ dateString = <<>>
IdleLayout == app = <<>> /\ dateLayout = <<>>
IdleDA == da = <<>> /\ daOut = <<>>
IdleName == rawName = <<>> /\ decoded = <<>>
IdleAppearance == widget = <<>> /\ appearance = <<>>
IdleFill ==
    /\ signData = <<>> /\ doc = <<>> /\ updateErrs = {} /\ fillPass = <<>> /\ fieldIdx = 0
    /\ added = <<>> /\ updated = <<>> /\ passes = <<>>
IdleImage == sigApp = <<>> /\ sigOut = <<>> /\ pixel = <<>> /\ pixelOut = <<>>
IdleSign == IdleLayout /\ IdleDA /\ IdleName /\ IdleAppearance /\ IdleFill /\ IdleImage

\* The HTTP settings the checks run under: the defaults, and a caller's own
\* client with a timeout and an explicit proxy.
CheckHTTPSettings ==
    {[HTTPClient |-> NilClient, HTTPTimeout |-> 0, ProxyURL |-> Nil],
     [HTTPClient |-> [isNil |-> FALSE, Timeout |-> 1 * Second, Transport |-> NilTransport],
      HTTPTimeout |-> 5 * Second, ProxyURL |-> Ptr("http://proxy.example.com:3128")]}


Init ==
    /\ \E en \in BOOLEAN, h \in CheckHTTPSettings :
          options = [EnableExternalRevocationCheck |-> en, HTTPClient |-> h.HTTPClient,
                     HTTPTimeout |-> h.HTTPTimeout, ProxyURL |-> h.ProxyURL]
    /\ \E ocsp \in Prefixes(OCSPURLs), crl \in Prefixes(CRLURLs) :
          cert = [SerialNumber |-> CertSerial, OCSPServer |-> ocsp,
                  CRLDistributionPoints |-> crl]
    /\ ocspReqErr \in BOOLEAN
    /\ server = [cat \in {"ocsp", "crl"} |->
                    [u \in (IF cat = "ocsp" THEN {OCSPURLs[k] : k \in 1..Len(OCSPURLs)}
                            ELSE {CRLURLs[k] : k \in 1..Len(CRLURLs)}) |-> Nil]]
    /\ pc = "idle"
    /\ i = 0
    /\ client = NilClient
    /\ lastErr = Nil
    /\ result = NewOCSPResult
    /\ requests = <<>>
    /\ calls = <<>>
    /\ ocspResults = <<>>
    /\ crlResults = <<>>
    /\ IdleHTTPClient /\ IdleMatch /\ IdleDate /\ IdleSign

otherVars == <<httpClient, field, matched, date, dateString, signVars>>

\* The idle values of the variables of the verify package's specifications.
IdleVerify ==
    /\ options = <<>> /\ cert = <<>> /\ ocspReqErr = FALSE /\ server = <<>>
    /\ pc = "idle" /\ i = 0 /\ client = NilClient /\ lastErr = Nil
    /\ result = NewOCSPResult /\ requests = <<>> /\ calls = <<>>
    /\ ocspResults = <<>> /\ crlResults = <<>>
    /\ IdleHTTPClient

verifyVars == <<revVars, httpClient>>

Next ==
    \/ OCSPStart /\ UNCHANGED otherVars
    \/ OCSPTryURL /\ UNCHANGED otherVars
    \/ OCSPAllFailed /\ UNCHANGED otherVars
    \/ CRLStart /\ UNCHANGED otherVars
    \/ CRLTryURL /\ UNCHANGED otherVars
    \/ CRLAllFailed /\ UNCHANGED otherVars

Spec == Init /\ [][Next]_vars

(***************************************************************************)
(* Claims about the external revocation checks (Spec).                     *)
(***************************************************************************)
Enabled == options.EnableExternalRevocationCheck
URLsOf(cat) == IF cat = "ocsp" THEN cert.OCSPServer ELSE cert.CRLDistributionPoints
ResultsOf(cat) == IF cat = "ocsp" THEN ocspResults ELSE crlResults
LastCall == calls[Len(calls)]
\* A check has returned and the caller has not invoked the next one.
Returned_(cat) == pc = "idle" /\ calls # <<>> /\ LastCall = cat
LastResult(cat) == ResultsOf(cat)[Len(ResultsOf(cat))]
NoneContacted(cat) == \A u \in DOMAIN server[cat] : server[cat][u] = Nil

C3_CheckedIffAttempted ==
    \A cat \in {"ocsp", "crl"} : \A k \in 1..Len(ResultsOf(cat)) :
        ResultsOf(cat)[k].Checked <=> (Enabled /\ URLsOf(cat) # <<>>)

\* How a warning describes the failure of the request to url answered by a.
Describes(w, cat, url, a) ==
    /\ w.url = url
    /\ a.err # "" =>
          /\ w.err = a.err
          /\ w.msg = (IF cat = "ocsp" THEN "failed to contact OCSP server %s: %v"
                      ELSE "failed to download CRL from %s: %v")
    /\ (a.err = "" /\ a.StatusCode # 200) =>
          /\ w.status = a.StatusCode
          /\ w.msg = (IF cat = "ocsp" THEN "OCSP server %s returned status %d"
                      ELSE "CRL server %s returned status %d")
    /\ (a.err = "" /\ a.StatusCode = 200 /\ a.readErr) =>
          w.msg = (IF cat = "ocsp" THEN "failed to read OCSP response from %s: %v"
                   ELSE "failed to read CRL from %s: %v")
    /\ (a.err = "" /\ a.StatusCode = 200 /\ ~a.readErr /\ a.parseErr) =>
          w.msg = (IF cat = "ocsp" THEN "failed to parse OCSP response from %s: %v"
                   ELSE "failed to parse CRL from %s: %v")

AllRequestsFailed == \A k \in 1..Len(requests) : AnswerFails(requests[k].answer)

\* C4: external revocation failures are warnings: when every URL fails (and
\* when the OCSP request cannot be built) the check returns normally with
\* Checked=true, Valid=false and a non-empty Warning, which describes the
\* failure of the last URL tried.
C4_FailuresAreWarnings ==
    /\ pc = "idle" => Len(ocspResults) + Len(crlResults) = Len(calls)
    /\ \A cat \in {"ocsp", "crl"} :
          (Returned_(cat) /\ requests # <<>> /\ AllRequestsFailed) =>
              LET r == LastResult(cat)
                  last == requests[Len(requests)]
              IN /\ r.Checked /\ ~r.Valid /\ r.Warning.msg # ""
                 /\ Len(requests) = Len(URLsOf(cat))
                 /\ last.url = URLsOf(cat)[Len(URLsOf(cat))]
                 /\ Describes(r.Warning, cat, last.url, last.answer)
    /\ (Enabled /\ cert.OCSPServer # <<>> /\ ocspReqErr) =>
          /\ NoneContacted("ocsp")
          /\ \A k \in 1..Len(ocspResults) :
                /\ ocspResults[k].Checked /\ ~ocspResults[k].Valid
                /\ ocspResults[k].Warning.msg = "failed to create OCSP request: %v"

\* C4 witness: a CRL check has returned after two URLs failed in different
\* ways, the first with an unreadable body (so a deferred Close was pending).
C4_Witness ==
    /\ Returned_("crl") /\ Len(requests) = 2 /\ AllRequestsFailed
    /\ requests[1].answer.readErr
    /\ requests[2].answer.StatusCode = 500

\* C5: the URLs are tried one after another in the order listed, each at most
\* once; a URL is requested only after all earlier ones failed; no request
\* follows the first parseable response, and the result is then Valid=true
\* with an empty Warning even if earlier URLs failed.
C5_InOrderUntilFirstSuccess ==
    /\ calls = <<>> => requests = <<>>
    /\ calls # <<>> =>
          /\ Len(requests) <= Len(URLsOf(LastCall))
          /\ \A k \in 1..Len(requests) :
                /\ requests[k].url = URLsOf(LastCall)[k]
                /\ k < Len(requests) => AnswerFails(requests[k].answer)
          /\ (requests # <<>> /\ ~AnswerFails(requests[Len(requests)].answer)) =>
                /\ pc = "idle"
                /\ LastResult(LastCall).Valid
                /\ LastResult(LastCall).Warning = NoWarning
          /\ pc # "idle" => i = Len(requests) + 1

\* C5 witness: an OCSP check returned Valid after its first URL failed and
\* its second answered; no third request exists.
C5_Witness ==
    /\ Returned_("ocsp") /\ Len(requests) = 2
    /\ AnswerFails(requests[1].answer) /\ ~AnswerFails(requests[2].answer)
    /\ LastResult("ocsp").Valid

ParsedCRL ==
    LET list == cert.CRLDistributionPoints
        good == {k \in 1..Len(list) :
                    server["crl"][list[k]] # Nil /\ ~AnswerFails(server["crl"][list[k]][1])}
        first == CHOOSE k \in good : \A m \in good : k <= m
    IN server["crl"][list[first]][1].entries

\* C7: a downloaded and parsed CRL gives Valid=true; IsRevoked holds exactly
\* when the CRL has an entry with the certificate's serial number;
\* RevocationTime is that entry's time when IsRevoked and nil otherwise.
C7_RevokedIffListed ==
    /\ (Returned_("crl") /\ requests # <<>> /\ ~AllRequestsFailed) => LastResult("crl").Valid
    /\ \A k \in 1..Len(crlResults) :
          LET r == crlResults[k] IN
          /\ r.Valid =>
                (r.IsRevoked <=>
                    \E e \in 1..Len(ParsedCRL) : ParsedCRL[e].SerialNumber = cert.SerialNumber)
          /\ r.IsRevoked =>
                /\ r.Valid
                /\ r.RevocationTime # Nil
                /\ \E e \in 1..Len(ParsedCRL) :
                      /\ ParsedCRL[e].SerialNumber = cert.SerialNumber
                      /\ r.RevocationTime[1] = ParsedCRL[e].RevocationTime
          /\ ~r.IsRevoked => r.RevocationTime = Nil

\* C7 witness: the parsed CRL lists another certificate after the checked one,
\* and the result is revoked.
C7_Witness ==
    /\ crlResults # <<>> /\ crlResults[1].Valid /\ crlResults[1].IsRevoked
    /\ Len(ParsedCRL) = 2
    /\ ParsedCRL[1].SerialNumber = cert.SerialNumber
    /\ ParsedCRL[2].SerialNumber # cert.SerialNumber

(***************************************************************************)
(* SpecHTTPClient: getHTTPClient over the configurations of VerifyOptions. *)
(***************************************************************************)
ProxyExample == "http://proxy.example.com:3128"

\* Transports a caller-supplied client may carry.
CallerTransports ==
    {NilTransport, [kind |-> "other", Proxy |-> "own"]}
    \cup {[kind |-> "http.Transport", Proxy |-> p] : p \in {"none", "env", "own"}}

\* options.HTTPClient: nil, or the caller's client with its own timeout.
CallerClients ==
    {NilClient}
    \cup {[isNil |-> FALSE, Timeout |-> t * Second, Transport |-> tr] :
             t \in {0, 1, 20}, tr \in CallerTransports}

InitHTTPClient ==
    /\ \E hc \in CallerClients, t \in {-1, 0, 5, 15}, p \in {Nil, Ptr(ProxyExample)} :
          options = [EnableExternalRevocationCheck |-> TRUE, HTTPClient |-> hc,
                     HTTPTimeout |-> t * Second, ProxyURL |-> p]
    /\ cert = [SerialNumber |-> CertSerial, OCSPServer |-> <<>>,
               CRLDistributionPoints |-> <<>>]
    /\ ocspReqErr = FALSE
    /\ server = <<>>
    /\ pc = "idle"
    /\ i = 0
    /\ client = NilClient
    /\ lastErr = Nil
    /\ result = NewOCSPResult
    /\ requests = <<>>
    /\ calls = <<>>
    /\ ocspResults = <<>>
    /\ crlResults = <<>>
    /\ IdleHTTPClient /\ IdleMatch /\ IdleDate /\ IdleSign

\* client := getHTTPClient(options)
GetHTTPClient ==
    /\ httpClient = NilClient
    /\ httpClient' = getHTTPClient(options)
    /\ options' = [options EXCEPT
                      !.HTTPClient = clientAt(getHTTPClientObjects(options), "client")]
    /\ UNCHANGED <<cert, ocspReqErr, server, pc, i, client, lastErr, result,
                   requests, calls, ocspResults, crlResults>>
    /\ UNCHANGED <<field, matched, date, dateString, signVars>>

NextHTTPClient == GetHTTPClient

SpecHTTPClient == InitHTTPClient /\ [][NextHTTPClient]_vars

GotHTTPClient == httpClient # NilClient

\* C8: the client returned by getHTTPClient has Timeout = options.HTTPTimeout
\* when that is non-zero and 10 seconds when it is zero, whether
\* options.HTTPClient is nil or a caller's client (whose own Timeout is
\* overridden).
C8_GoverningTimeout ==
    GotHTTPClient =>
        httpClient.Timeout =
            (IF options.HTTPTimeout # 0 THEN options.HTTPTimeout ELSE 10 * Second)

\* C8 witness: a caller's client with a 20 s timeout of its own and
\* HTTPTimeout zero: the returned client has the 10 s default.
C8_Witness ==
    /\ GotHTTPClient
    /\ ~options.HTTPClient.isNil /\ options.HTTPClient.Timeout = 20 * Second
    /\ options.HTTPTimeout = 0
    /\ httpClient.Timeout = 10 * Second

\* The proxy the options ask for.
WantedProxy == IF options.ProxyURL # Nil THEN options.ProxyURL[1] ELSE "env"

C27_CallerObjectsUnchanged == [][options' = options]_vars

\* C27 witness: a caller's client with a 20 s timeout and a *http.Transport
\* with its own proxy function; the returned client has another timeout and
\* another proxy, and the caller's client still has its own.
C27_Witness ==
    /\ GotHTTPClient
    /\ options.HTTPClient =
           [isNil |-> FALSE, Timeout |-> 20 * Second,
            Transport |-> [kind |-> "http.Transport", Proxy |-> "own"]]
    /\ options.HTTPTimeout = 5 * Second
    /\ options.ProxyURL = Ptr(ProxyExample)
    /\ httpClient.Timeout = 5 * Second
    /\ httpClient.Transport = [kind |-> "http.Transport", Proxy |-> ProxyExample]

\* C28: the Timeout of the client returned by getHTTPClient is strictly
\* positive for every options.HTTPTimeout (zero, positive or negative) and
\* every options.HTTPClient.
C28_TimeoutPositive == GotHTTPClient => httpClient.Timeout > 0

\* The part of C28 that holds: a zero or positive HTTPTimeout gives a positive
\* Timeout; a negative one is passed on as it is.
TimeoutPositiveUnlessNegative ==
    GotHTTPClient =>
        IF options.HTTPTimeout >= 0
        THEN httpClient.Timeout > 0
        ELSE httpClient.Timeout = options.HTTPTimeout

(***************************************************************************)
(* Strings of the sign package: sequences of one-character strings.        *)
(***************************************************************************)
MaxUIDLen == 2        \* characters of a signer UID
MaxTailLen == 4       \* characters after "_signer_" in a field name

RECURSIVE Concat(_)
\* The concatenation of a sequence of strings.
Concat(parts) == IF parts = <<>> THEN <<>> ELSE Head(parts) \o Concat(Tail(parts))

\* The strings over alphabet of length lo..hi.
Strings(alphabet, lo, hi) == UNION {[1..n -> alphabet] : n \in lo..hi}

Digits == <<"0", "1", "2", "3", "4", "5", "6", "7", "8", "9">>
HexLower == Digits \o <<"a", "b", "c", "d", "e", "f">>
HexUpper == Digits \o <<"A", "B", "C", "D", "E", "F">>
IsDigit(c) == \E k \in 1..Len(Digits) : Digits[k] = c
IsHexDigit(c) == \E k \in 1..Len(HexLower) : HexLower[k] = c \/ HexUpper[k] = c
\* The value of a hexadecimal digit, either case.
HexValue(c) == (CHOOSE k \in 1..Len(HexLower) : HexLower[k] = c \/ HexUpper[k] = c) - 1

\* The printable ASCII characters, from byte 32 to byte 126 (the grave
\* accent, byte 96, is written "x60").
Printable ==
    <<" ", "!", "\"", "#", "$", "%", "&", "'", "(", ")", "*", "+", ",", "-", ".", "/",
     "0", "1", "2", "3", "4", "5", "6", "7", "8", "9", ":", ";", "<", "=", ">", "?",
     "@", "A", "B", "C", "D", "E", "F", "G", "H", "I", "J", "K", "L", "M", "N", "O",
     "P", "Q", "R", "S", "T", "U", "V", "W", "X", "Y", "Z", "[", "\\", "]", "^", "_",
     "x60", "a", "b", "c", "d", "e", "f", "g", "h", "i", "j", "k", "l", "m", "n", "o",
     "p", "q", "r", "s", "t", "u", "v", "w", "x", "y", "z", "{", "|", "}", "~">>

\* A Go string is a sequence of bytes; the model writes each byte as a
\* string of its own: the character for ASCII, "xHH" for any other byte.
Chr(b) ==
    IF b \in 32..126 THEN Printable[b - 31]
    ELSE CASE b = 9 -> "\t" [] b = 10 -> "\n" [] b = 12 -> "\f" [] b = 13 -> "\r"
           [] OTHER -> "x" \o HexUpper[(b \div 16) + 1] \o HexUpper[(b % 16) + 1]
ByteOf == [c \in {Chr(b) : b \in 0..255} |-> CHOOSE b \in 0..255 : Chr(b) = c]
Ord(c) == ByteOf[c]

\* hex.EncodeToString([]byte(s)): two lower-case digits per byte.
hexEncodeToString(str) ==
    [k \in 1..(2 * Len(str)) |->
        LET b == Ord(str[(k + 1) \div 2]) IN
        IF k % 2 = 1 THEN HexLower[(b \div 16) + 1] ELSE HexLower[(b % 16) + 1]]

\* hex.DecodeString(s): err is set for an odd length or a character that is
\* no hexadecimal digit.
hexDecodeString(str) ==
    IF Len(str) % 2 # 0 \/ \E k \in 1..Len(str) : ~IsHexDigit(str[k])
    THEN [err |-> TRUE, bs |-> <<>>]
    ELSE [err |-> FALSE,
          bs |-> [k \in 1..(Len(str) \div 2) |->
                     Chr(16 * HexValue(str[2 * k - 1]) + HexValue(str[2 * k]))]]

\* sub occurs in str at position k.
OccursAt(str, sub, k) ==
    /\ k >= 1 /\ k + Len(sub) - 1 <= Len(str)
    /\ \A m \in 1..Len(sub) : str[k + m - 1] = sub[m]
\* strings.HasPrefix
HasPrefix(str, prefix) == OccursAt(str, prefix, 1)
\* strings.Index, counted from 1; 0 when sub does not occur.
Index(str, sub) ==
    LET at == {k \in 1..(Len(str) + 1) : OccursAt(str, sub, k)} IN
    IF at = {} THEN 0 ELSE CHOOSE k \in at : \A m \in at : k <= m

\* unicode.IsSpace on the characters of the model.
IsSpace(c) == c \in {" ", "\t", "\n", "\r", "\f"}

\* The character classes of the regular expressions: \d, [0-9], \s,
\* [0-9a-fA-F], and `.`, which in Go's regexp is any character but a line
\* feed; "\\S" stands for the characters strings.Fields keeps together.
InClass(c, class) ==
    CASE class = "\\d" -> IsDigit(c)
      [] class = "[0-9]" -> IsDigit(c)
      [] class = "[0-9a-fA-F]" -> IsHexDigit(c)
      [] class = "." -> c # "\n"
      [] class = "\\s" -> c \in {" ", "\t", "\n", "\r", "\f"}
      [] class = "\\S" -> ~IsSpace(c)

\* The end of the longest run of characters of class that starts at k
\* (k - 1 when there is none): a greedy `+`.
RunEnd(str, k, class) ==
    LET stops == {m \in k..(Len(str) + 1) : m = Len(str) + 1 \/ ~InClass(str[m], class)} IN
    (CHOOSE m \in stops : \A n \in stops : m <= n) - 1

(***************************************************************************)
(* The two field-name patterns, `initials_page_(\d+)_signer_(.+)` and      *)
(* `date_id_(\d+)_signer_(.+)`: a literal, digits, a literal, the signer.  *)
(***************************************************************************)
SignerLit == <<"s", "i", "g", "n", "e", "r", "_">>
InfixLit == <<"_">> \o SignerLit
InitialsPattern == [prefix |-> <<"i", "n", "i", "t", "i", "a", "l", "s", "_", "p", "a", "g", "e", "_">>, infix |-> InfixLit]
DatePattern == [prefix |-> <<"d", "a", "t", "e", "_", "i", "d", "_">>, infix |-> InfixLit]

\* re.FindStringSubmatch(name) for a pattern prefix(\d+)infix(.+): the
\* leftmost match, its groups greedy; <<>> when there is none.
FindStringSubmatch(pattern, name) ==
    LET MatchAt(k) ==
            LET d == k + Len(pattern.prefix)
                dEnd == RunEnd(name, d, "\\d")
                t == dEnd + 1 + Len(pattern.infix)
                tEnd == RunEnd(name, t, ".")
            IN IF /\ OccursAt(name, pattern.prefix, k)
                  /\ d <= Len(name) /\ dEnd >= d
                  /\ OccursAt(name, pattern.infix, dEnd + 1)
                  /\ t <= Len(name) /\ tEnd >= t
               THEN <<SubSeq(name, k, tEnd), SubSeq(name, d, dEnd), SubSeq(name, t, tEnd)>>
               ELSE <<>>
        starts == {k \in 1..Len(name) : MatchAt(k) # <<>>}
    IN IF starts = {} THEN <<>>
       ELSE MatchAt(CHOOSE k \in starts : \A m \in starts : k <= m)

\* hexRe.FindString(tail) for `[0-9a-fA-F]+`: the leftmost, longest run.
FindHex(tail) ==
    LET starts == {k \in 1..Len(tail) : IsHexDigit(tail[k])} IN
    IF starts = {} THEN <<>>
    ELSE LET k == CHOOSE m \in starts : \A n \in starts : m <= n
         IN SubSeq(tail, k, RunEnd(tail, k, "[0-9a-fA-F]"))

\* The comparison of the field's signer with the configured uid.
\* Mutant: only the literal form is accepted.
signerEqualsMutLiteralOnly(fieldSigner, uid) == fieldSigner = uid
signerEquals(fieldSigner, uid) ==
    \/ fieldSigner = uid
    \/ hexEncodeToString(uid) = fieldSigner
    \/ LET dec == hexDecodeString(fieldSigner) IN ~dec.err /\ dec.bs = uid

\* matchFieldSigner(decodedFieldName, pattern, uid)
matchFieldSigner(decodedFieldName, pattern, uid) ==
    LET matches == FindStringSubmatch(pattern, decodedFieldName)
        idx == Index(decodedFieldName, SignerLit)
        tail == SubSeq(decodedFieldName, idx + Len(SignerLit), Len(decodedFieldName))
    IN IF Len(matches) >= 3
       THEN [ok |-> signerEquals(matches[3], uid), fieldSigner |-> matches[3]]
       ELSE IF ~HasPrefix(decodedFieldName, pattern.prefix)
            THEN [ok |-> FALSE, fieldSigner |-> <<>>]
       ELSE IF idx = 0 \/ FindHex(tail) = <<>>
            THEN [ok |-> FALSE, fieldSigner |-> <<>>]
       ELSE [ok |-> signerEquals(FindHex(tail), uid), fieldSigner |-> FindHex(tail)]

(***************************************************************************)
(* SpecMatch: matchFieldSigner on decoded field names of the two patterns. *)
(***************************************************************************)
UIDAlphabet == {"J", "\n"}
TailAlphabet == {"J", "4", "a", "A", "\n"}
FieldNumbers == {<<"7">>, <<"1", "2">>}

InitMatch ==
    /\ \E pattern \in {InitialsPattern, DatePattern},
          num \in FieldNumbers,
          tail \in Strings(TailAlphabet, 0, MaxTailLen),
          uid \in Strings(UIDAlphabet, 1, MaxUIDLen) :
          field = [name |-> Concat(<<pattern.prefix, num, pattern.infix, tail>>),
                   pattern |-> pattern, uid |-> uid, tail |-> tail]
    /\ matched = <<>>
    /\ options = <<>> /\ cert = <<>> /\ ocspReqErr = FALSE /\ server = <<>>
    /\ pc = "idle" /\ i = 0 /\ client = NilClient /\ lastErr = Nil
    /\ result = NewOCSPResult /\ requests = <<>> /\ calls = <<>>
    /\ ocspResults = <<>> /\ crlResults = <<>>
    /\ IdleHTTPClient /\ IdleDate /\ IdleSign

\* matched, _ := matchFieldSigner(decodedFieldName, pattern, uid)
MatchFieldSigner ==
    /\ matched = <<>>
    /\ matched' = Ptr(matchFieldSigner(field.name, field.pattern, field.uid))
    /\ UNCHANGED <<revVars, httpClient, field, date, dateString, signVars>>

NextMatch == MatchFieldSigner

SpecMatch == InitMatch /\ [][NextMatch]_vars

\* C1 (as claimed): for every non-empty uid u and every field name
\* initials_page_<digits>_signer_<t> or date_id_<digits>_signer_<t>, the field
\* matches if and only if t = u, t = hex(u), or t hex-decodes to u.
C1_MatchIffThreeForms ==
    matched # <<>> =>
        (matched[1].ok <=>
            \/ field.tail = field.uid
            \/ field.tail = hexEncodeToString(field.uid)
            \/ (~hexDecodeString(field.tail).err
                /\ hexDecodeString(field.tail).bs = field.uid))

(***************************************************************************)
(* formatDateString (sign package).                                        *)
(***************************************************************************)
MaxOffsetHours == 23  \* largest zone offset, in hours

SecondsPerHour == 3600
SecondsPerMinute == 60

\* Go's integer division and remainder: truncated towards zero.
Quo(a, b) == IF a >= 0 THEN a \div b ELSE -((-a) \div b)
Rem(a, b) == a - b * Quo(a, b)

RECURSIVE Decimal(_)
\* The decimal digits of n >= 0.
Decimal(n) == IF n < 10 THEN <<Digits[n + 1]>> ELSE Decimal(n \div 10) \o <<Digits[(n % 10) + 1]>>

\* fmt's %0<width>d: sign first, zeros up to the width.
PadDecimal(n, width) ==
    LET body == IF n < 0 THEN <<"-">> \o Decimal(-n) ELSE Decimal(n)
        RECURSIVE Pad(_)
        Pad(str) == IF Len(str) >= width THEN str
                    ELSE IF n < 0 THEN Pad(<<"-", "0">> \o Tail(str))
                    ELSE Pad(<<"0">> \o str)
    IN Pad(body)

RECURSIVE Format(_, _)
\* date.Format(layout) for layouts made of the reference elements 2006, 01,
\* 02, 15, 04 and literal characters.
Format(d, layout) ==
    IF layout = <<>> THEN <<>>
    ELSE IF OccursAt(layout, <<"2", "0", "0", "6">>, 1)
         THEN PadDecimal(d.year, 4) \o Format(d, SubSeq(layout, 5, Len(layout)))
    ELSE IF OccursAt(layout, <<"0", "1">>, 1)
         THEN PadDecimal(d.month, 2) \o Format(d, SubSeq(layout, 3, Len(layout)))
    ELSE IF OccursAt(layout, <<"0", "2">>, 1)
         THEN PadDecimal(d.day, 2) \o Format(d, SubSeq(layout, 3, Len(layout)))
    ELSE IF OccursAt(layout, <<"1", "5">>, 1)
         THEN PadDecimal(d.hour, 2) \o Format(d, SubSeq(layout, 3, Len(layout)))
    ELSE IF OccursAt(layout, <<"0", "4">>, 1)
         THEN PadDecimal(d.minute, 2) \o Format(d, SubSeq(layout, 3, Len(layout)))
    ELSE <<Head(layout)>> \o Format(d, Tail(layout))

\* The timezone part: "GMT" for offset 0, else the sign, hours and minutes.
\* Mutant: no special case for offset 0.
timezonePartMutNoGMT(offset) ==
    IF offset < 0
    THEN <<"-">> \o PadDecimal(-Quo(offset, SecondsPerHour), 2) \o <<":">>
         \o PadDecimal(-Quo(Rem(offset, SecondsPerHour), SecondsPerMinute), 2)
    ELSE <<"+">> \o PadDecimal(Quo(offset, SecondsPerHour), 2) \o <<":">>
         \o PadDecimal(Quo(Rem(offset, SecondsPerHour), SecondsPerMinute), 2)
\* Mutant: the division and remainder round towards minus infinity.
timezonePartMutFloorDiv(offset) ==
    IF offset = 0 THEN <<"G", "M", "T">>
    ELSE IF offset < 0
    THEN LET offsetHours == offset \div SecondsPerHour
             m == (offset % SecondsPerHour) \div SecondsPerMinute
             offsetMinutes == IF m < 0 THEN -m ELSE m
         IN <<"-">> \o PadDecimal(-offsetHours, 2) \o <<":">> \o PadDecimal(offsetMinutes, 2)
    ELSE <<"+">> \o PadDecimal(offset \div SecondsPerHour, 2) \o <<":">>
         \o PadDecimal((offset % SecondsPerHour) \div SecondsPerMinute, 2)
timezonePart(offset) ==
    IF offset = 0 THEN <<"G", "M", "T">>
    ELSE IF offset < 0
    THEN LET offsetHours == Quo(offset, SecondsPerHour)
             m == Quo(Rem(offset, SecondsPerHour), SecondsPerMinute)
             offsetMinutes == IF m < 0 THEN -m ELSE m
         IN <<"-">> \o PadDecimal(-offsetHours, 2) \o <<":">> \o PadDecimal(offsetMinutes, 2)
    ELSE LET offsetHours == Quo(offset, SecondsPerHour)
             offsetMinutes == Quo(Rem(offset, SecondsPerHour), SecondsPerMinute)
         IN <<"+">> \o PadDecimal(offsetHours, 2) \o <<":">> \o PadDecimal(offsetMinutes, 2)

\* formatDateString(date, layout): fmt.Sprintf("%s %s", dateTimePart, timezonePart)
formatDateString(d, layout) == Format(d, layout) \o <<" ">> \o timezonePart(d.offset)

(***************************************************************************)
(* SpecDate: formatDateString over dates, zone offsets and layouts.        *)
(***************************************************************************)
LayoutUS == <<"0", "1", "/", "0", "2", "/", "2", "0", "0", "6", " ", "1", "5", ":", "0", "4">>
LayoutEU == <<"0", "2", "/", "0", "1", "/", "2", "0", "0", "6", " ", "1", "5", ":", "0", "4">>
LayoutDE == <<"0", "2", ".", "0", "1", ".", "2", "0", "0", "6", " ", "1", "5", ":", "0", "4">>
LayoutISO == <<"2", "0", "0", "6", "-", "0", "1", "-", "0", "2", " ", "1", "5", ":", "0", "4">>
Layouts == {LayoutUS, LayoutEU, LayoutDE, LayoutISO}

\* Zone offsets in seconds east of UTC, with and without minutes and seconds.
Offsets ==
    {sgn * (h * SecondsPerHour + m * SecondsPerMinute + sec) :
        sgn \in {-1, 1}, h \in 0..MaxOffsetHours, m \in {0, 30, 45, 59}, sec \in {0, 30}}

DateTimes ==
    {[year |-> 2024, month |-> 1, day |-> 15, hour |-> 14, minute |-> 30],
     [year |-> 1999, month |-> 12, day |-> 31, hour |-> 23, minute |-> 59]}

InitDate ==
    /\ \E dt \in DateTimes, off \in Offsets, layout \in Layouts :
          date = [year |-> dt.year, month |-> dt.month, day |-> dt.day,
                  hour |-> dt.hour, minute |-> dt.minute, offset |-> off,
                  layout |-> layout]
    /\ dateString = <<>>
    /\ options = <<>> /\ cert = <<>> /\ ocspReqErr = FALSE /\ server = <<>>
    /\ pc = "idle" /\ i = 0 /\ client = NilClient /\ lastErr = Nil
    /\ result = NewOCSPResult /\ requests = <<>> /\ calls = <<>>
    /\ ocspResults = <<>> /\ crlResults = <<>>
    /\ IdleHTTPClient /\ IdleMatch /\ IdleSign

\* return formatDateString(sigTime, layout), nil
FormatDateString ==
    /\ dateString = <<>>
    /\ dateString' = Ptr(formatDateString(date, date.layout))
    /\ UNCHANGED <<revVars, httpClient, field, matched, date, signVars>>

NextDate == FormatDateString

SpecDate == InitDate /\ [][NextDate]_vars

\* The text after the formatted date-time and one space.
Suffix == SubSeq(dateString[1], Len(Format(date, date.layout)) + 2, Len(dateString[1]))

C11_UTCSuffix ==
    (dateString # <<>> /\ date.offset = 0 /\ date.layout = LayoutUS) =>
        dateString[1] = Format(date, LayoutUS) \o <<" ", "U", "T", "C">>

\* The number a string of decimal digits denotes.
RECURSIVE ParseDecimal(_)
ParseDecimal(str) ==
    IF str = <<>> THEN 0
    ELSE 10 * ParseDecimal(SubSeq(str, 1, Len(str) - 1)) + HexValue(str[Len(str)])

Abs(n) == IF n < 0 THEN -n ELSE n

\* C12: for every non-zero zone offset o of a whole number of minutes with
\* |o| < 24 h, the suffix is the sign of o, HH = |o| div 3600 and
\* MM = (|o| mod 3600) div 60, so that sign * (HH * 3600 + MM * 60) = o.
C12_SuffixExact ==
    (/\ dateString # <<>>
     /\ date.offset # 0
     /\ date.offset % SecondsPerMinute = 0
     /\ Abs(date.offset) < 24 * SecondsPerHour) =>
        LET sign == IF Suffix[1] = "-" THEN -1 ELSE 1
            HH == ParseDecimal(SubSeq(Suffix, 2, 3))
            MM == ParseDecimal(SubSeq(Suffix, 5, 6))
        IN /\ Len(Suffix) = 6
           /\ Suffix[1] \in {"-", "+"}
           /\ (Suffix[1] = "-") <=> (date.offset < 0)
           /\ HH = Abs(date.offset) \div 3600
           /\ MM = (Abs(date.offset) % 3600) \div 60
           /\ sign * (HH * 3600 + MM * 60) = date.offset

\* C12 witness: three and a half hours west of UTC, formatted "-03:30".
C12_Witness ==
    /\ dateString # <<>>
    /\ date.offset = -(3 * SecondsPerHour + 30 * SecondsPerMinute)
    /\ Suffix = <<"-", "0", "3", ":", "3", "0">>

(***************************************************************************)
(* resolveDateLayout (sign package).                                       *)
(***************************************************************************)
\* strings.TrimSpace
TrimSpace(str) ==
    LET keep == {k \in 1..Len(str) : ~IsSpace(str[k])} IN
    IF keep = {} THEN <<>>
    ELSE SubSeq(str, CHOOSE k \in keep : \A m \in keep : k <= m,
                     CHOOSE k \in keep : \A m \in keep : k >= m)

\* strings.ReplaceAll(str, old, new) for one-character old and new.
ReplaceAll(str, old, new) == [k \in 1..Len(str) |-> IF str[k] = old THEN new ELSE str[k]]

localeToDateLayout ==
    (<<"e", "n", "-", "U", "S">> :> LayoutUS) @@ (<<"e", "n", "_", "U", "S">> :> LayoutUS) @@
    (<<"f", "r", "-", "F", "R">> :> LayoutEU) @@ (<<"f", "r", "_", "F", "R">> :> LayoutEU) @@
    (<<"d", "e", "-", "D", "E">> :> LayoutDE) @@ (<<"d", "e", "_", "D", "E">> :> LayoutDE) @@
    (<<"e", "n", "-", "G", "B">> :> LayoutEU) @@ (<<"e", "n", "_", "G", "B">> :> LayoutEU) @@
    (<<"e", "s", "-", "E", "S">> :> LayoutEU) @@ (<<"e", "s", "_", "E", "S">> :> LayoutEU) @@
    (<<"i", "t", "-", "I", "T">> :> LayoutEU) @@ (<<"i", "t", "_", "I", "T">> :> LayoutEU)

\* Mutant: the locale's layout takes precedence over DateFormat.
resolveDateLayoutMutLocaleFirst(dateFormat, locale) ==
    LET norm == ReplaceAll(locale, "_", "-") IN
    IF TrimSpace(locale) # <<>> /\ norm \in DOMAIN localeToDateLayout
    THEN localeToDateLayout[norm]
    ELSE IF TrimSpace(dateFormat) # <<>> THEN dateFormat
    ELSE LayoutUS
resolveDateLayout(dateFormat, locale) ==
    LET norm == ReplaceAll(locale, "_", "-") IN
    IF TrimSpace(dateFormat) # <<>> THEN dateFormat
    ELSE IF TrimSpace(locale) # <<>> /\ norm \in DOMAIN localeToDateLayout
         THEN localeToDateLayout[norm]
    ELSE IF TrimSpace(locale) # <<>> /\ locale \in DOMAIN localeToDateLayout
         THEN localeToDateLayout[locale]
    ELSE LayoutUS

(***************************************************************************)
(* SpecLayout: resolveDateLayout over DateFormat and Locale settings.      *)
(***************************************************************************)
DateFormats == {<<>>, <<" ", " ", " ">>, <<"\t">>, LayoutDE, LayoutISO, <<" ">> \o LayoutEU, <<"2", "0", "0", "6">>}

Locales ==
    DOMAIN localeToDateLayout \cup
    {<<>>, <<" ", " ", " ">>, <<"n", "l", "-", "N", "L">>, <<"n", "l", "_", "N", "L">>, <<"e", "n", "-", "u", "s">>, <<"e", "n">>, <<" ", "e", "n", "-", "U", "S">>, <<"d", "e", "-", "D", "E", " ">>, <<"f", "r", "-", "F", "R", "-", "x">>, <<"e", "n", " ", "U", "S">>, <<"-">>, <<"_">>}

InitLayout ==
    /\ \E df \in DateFormats, loc \in Locales : app = [DateFormat |-> df, Locale |-> loc]
    /\ dateLayout = <<>>
    /\ IdleVerify /\ IdleMatch /\ IdleDate /\ IdleDA /\ IdleName /\ IdleAppearance /\ IdleFill /\ IdleImage

\* layout := resolveDateLayout(app.DateFormat, app.Locale)
ResolveDateLayout ==
    /\ dateLayout = <<>>
    /\ dateLayout' = Ptr(resolveDateLayout(app.DateFormat, app.Locale))
    /\ UNCHANGED <<verifyVars, field, matched, date, dateString, app, daVars, nameVars, apVars, fillVars, imgVars>>

NextLayout == ResolveDateLayout

SpecLayout == InitLayout /\ [][NextLayout]_vars

\* A string with no character other than white space.
Blank(str) == \A k \in 1..Len(str) : IsSpace(str[k])

\* The predefined layout of each locale, by its language and region.
PredefinedLayouts ==
    {[lang |-> <<"e", "n">>, region |-> <<"U", "S">>, layout |-> <<"0", "1", "/", "0", "2", "/", "2", "0", "0", "6", " ", "1", "5", ":", "0", "4">>],
     [lang |-> <<"e", "n">>, region |-> <<"G", "B">>, layout |-> <<"0", "2", "/", "0", "1", "/", "2", "0", "0", "6", " ", "1", "5", ":", "0", "4">>],
     [lang |-> <<"f", "r">>, region |-> <<"F", "R">>, layout |-> <<"0", "2", "/", "0", "1", "/", "2", "0", "0", "6", " ", "1", "5", ":", "0", "4">>],
     [lang |-> <<"d", "e">>, region |-> <<"D", "E">>, layout |-> <<"0", "2", ".", "0", "1", ".", "2", "0", "0", "6", " ", "1", "5", ":", "0", "4">>],
     [lang |-> <<"e", "s">>, region |-> <<"E", "S">>, layout |-> <<"0", "2", "/", "0", "1", "/", "2", "0", "0", "6", " ", "1", "5", ":", "0", "4">>],
     [lang |-> <<"i", "t">>, region |-> <<"I", "T">>, layout |-> <<"0", "2", "/", "0", "1", "/", "2", "0", "0", "6", " ", "1", "5", ":", "0", "4">>]}

\* The predefined locales loc is a spelling of (at most one).
SpelledBy(loc) ==
    {pl \in PredefinedLayouts : \E sep \in {"-", "_"} : loc = pl.lang \o <<sep>> \o pl.region}

\* C13: resolveDateLayout returns dateFormat whenever it is not blank;
\* otherwise the predefined layout of the locale when the locale is one of
\* en-US, en-GB, fr-FR, de-DE, es-ES, it-IT written with a hyphen or an
\* underscore; otherwise the default "01/02/2006 15:04".
C13_LayoutPrecedence ==
    dateLayout # <<>> =>
        dateLayout[1] =
            IF ~Blank(app.DateFormat) THEN app.DateFormat
            ELSE IF SpelledBy(app.Locale) # {}
                 THEN (CHOOSE pl \in SpelledBy(app.Locale) : TRUE).layout
            ELSE <<"0", "1", "/", "0", "2", "/", "2", "0", "0", "6", " ", "1", "5", ":", "0", "4">>

\* C13 witness: a blank DateFormat and the locale de_DE give the German layout.
C13_Witness ==
    /\ dateLayout # <<>>
    /\ app.DateFormat = <<" ", " ", " ">>
    /\ app.Locale = <<"d", "e", "_", "D", "E">>
    /\ dateLayout[1] = <<"0", "2", ".", "0", "1", ".", "2", "0", "0", "6", " ", "1", "5", ":", "0", "4">>

(***************************************************************************)
(* normalizeDA (sign package).                                             *)
(***************************************************************************)
MaxDALen == 5         \* characters of an enumerated /DA string

RECURSIVE Fields(_)
\* strings.Fields: the maximal runs of characters that are not white space.
Fields(str) ==
    IF str = <<>> THEN <<>>
    ELSE IF IsSpace(Head(str)) THEN Fields(Tail(str))
    ELSE LET e == RunEnd(str, 1, "\\S")
         IN <<SubSeq(str, 1, e)>> \o Fields(SubSeq(str, e + 1, Len(str)))

\* re.FindStringSubmatch(str) for `([0-9]+(?:\.[0-9]+)?)\s*Tf`: the leftmost
\* match, the fraction preferred over its absence; <<>> when there is none.
\* (A shorter run of digits or of white space is followed by a character of
\* the same class, which matches nothing that follows in the pattern.)
FindSizeTf(str) ==
    LET MatchAt(k) ==
            LET e1 == RunEnd(str, k, "[0-9]")
                hasFrac == /\ e1 + 2 <= Len(str) /\ str[e1 + 1] = "."
                           /\ IsDigit(str[e1 + 2])
                e2 == IF hasFrac THEN RunEnd(str, e1 + 2, "[0-9]") ELSE e1
                TfAfter(e) == RunEnd(str, e + 1, "\\s") + 1
                Rest(e) == OccursAt(str, <<"T", "f">>, TfAfter(e))
            IN IF ~IsDigit(str[k]) THEN <<>>
               ELSE IF Rest(e2) THEN <<SubSeq(str, k, TfAfter(e2) + 1), SubSeq(str, k, e2)>>
               ELSE IF Rest(e1) THEN <<SubSeq(str, k, TfAfter(e1) + 1), SubSeq(str, k, e1)>>
               ELSE <<>>
        starts == {k \in 1..Len(str) : MatchAt(k) # <<>>}
    IN IF starts = {} THEN <<>>
       ELSE MatchAt(CHOOSE k \in starts : \A n \in starts : k <= n)

\* normalizeDA(raw)
normalizeDA(raw) ==
    LET s == ReplaceAll(ReplaceAll(raw, "\r", " "), "\n", " ")
        parts == Fields(s)
        m == FindSizeTf(s)
        size == IF Len(parts) > 0 /\ Len(m) >= 2 THEN m[2] ELSE <<"1", "0">>
    IN <<"/", "F", "1", " ">> \o size \o <<" ", "T", "f", " ", "0", " ", "0", " ", "0", " ", "r", "g">>

(***************************************************************************)
(* SpecDA: normalizeDA over raw /DA strings, applied once and again.       *)
(***************************************************************************)
DAAlphabet == {"/", "1", "2", ".", "T", "f", " ", "\n"}

\* /DA strings as documents carry them.
DASamples ==
    {<<"0", " ", "0", " ", "0", " ", "r", "g", "\n", "/", "H", "e", "l", "v", "e", "t", "i", "c", "a", " ", "1", "0", " ", "T", "f">>, <<"/", "H", "e", "l", "v", " ", "1", "2", ".", "5", " ", "T", "f", " ", "0", " ", "g">>, <<"/", "F", "1", " ", "0", " ", "T", "f">>, <<"/", "H", "e", "l", "v", " ", ".", "5", " ", "T", "f">>, <<"/", "F", "1", " ", "T", "f">>,
     <<"/", "H", "e", "l", "v", " ", "1", "2", " ", "T", "f", "\n", "0", " ", "g">>, <<"/", "H", "e", "l", "v", " ", "1", "2", ".", " ", "T", "f">>, <<"0", " ", "g">>, <<"/", "F", "2", " ", "9", "T", "f">>}

InitDA ==
    /\ da \in Strings(DAAlphabet, 0, MaxDALen) \cup DASamples
    /\ daOut = <<>>
    /\ IdleVerify /\ IdleMatch /\ IdleDate /\ IdleLayout /\ IdleName /\ IdleAppearance /\ IdleFill /\ IdleImage

\* da := normalizeDA(raw), and normalizeDA of a /DA that is normalized already
NormalizeDA ==
    /\ Len(daOut) < 2
    /\ daOut' = Append(daOut, normalizeDA(IF daOut = <<>> THEN da ELSE daOut[Len(daOut)]))
    /\ UNCHANGED <<verifyVars, field, matched, date, dateString, layoutVars, da, nameVars, apVars, fillVars, imgVars>>

NextDA == NormalizeDA

SpecDA == InitDA /\ [][NextDA]_vars

\* A PDF number: digits with at most one decimal point, and at least one digit.
PDFNumber(tok) ==
    /\ \A k \in 1..Len(tok) : IsDigit(tok[k]) \/ tok[k] = "."
    /\ \E k \in 1..Len(tok) : IsDigit(tok[k])
    /\ Cardinality({k \in 1..Len(tok) : tok[k] = "."}) <= 1

\* The font size of the first Tf operator of a content string: the number
\* that is the operand right before it; "10" when there is none.
SizeBeforeTf(raw) ==
    LET toks == Fields(raw)
        at == {k \in 2..Len(toks) : toks[k] = <<"T", "f">> /\ PDFNumber(toks[k - 1])}
    IN IF at = {} THEN <<"1", "0">>
       ELSE toks[(CHOOSE k \in at : \A n \in at : k <= n) - 1]

\* C18 (as claimed): normalizeDA returns exactly "/F1 <size> Tf 0 0 0 rg",
\* where <size> is the font size that precedes the Tf operator in the input
\* when there is one and 10 otherwise; and normalizeDA is idempotent.
C18_NormalForm ==
    /\ Len(daOut) >= 1 => daOut[1] = <<"/", "F", "1", " ">> \o SizeBeforeTf(da) \o <<" ", "T", "f", " ", "0", " ", "0", " ", "0", " ", "r", "g">>
    /\ Len(daOut) >= 2 => daOut[2] = daOut[1]

\* normalizeDA(normalizeDA(x)) = normalizeDA(x), on its own.
DAIdempotent == Len(daOut) >= 2 => daOut[2] = daOut[1]

(***************************************************************************)
(* decodeFieldName (sign package): /T strings in UTF-16 with a BOM.        *)
(***************************************************************************)
MaxTextLen == 2       \* runes after "_signer_" in an encoded field name

ReplacementChar == 65533   \* U+FFFD, unicode.ReplacementChar

IsHighSurrogate(u) == u \in 55296..56319    \* 0xD800..0xDBFF
IsLowSurrogate(u) == u \in 56320..57343     \* 0xDC00..0xDFFF

RECURSIVE utf16Decode(_)
\* utf16.Decode: a surrogate pair gives one rune, a lone surrogate U+FFFD.
utf16Decode(u16s) ==
    IF u16s = <<>> THEN <<>>
    ELSE IF /\ IsHighSurrogate(u16s[1]) /\ Len(u16s) >= 2
            /\ IsLowSurrogate(u16s[IF Len(u16s) >= 2 THEN 2 ELSE 1])
         THEN <<(u16s[1] - 55296) * 1024 + (u16s[2] - 56320) + 65536>>
              \o utf16Decode(SubSeq(u16s, 3, Len(u16s)))
    ELSE IF IsHighSurrogate(u16s[1]) \/ IsLowSurrogate(u16s[1])
         THEN <<ReplacementChar>> \o utf16Decode(Tail(u16s))
    ELSE <<u16s[1]>> \o utf16Decode(Tail(u16s))

\* The UTF-8 bytes of one rune.
EncodeRune(r) ==
    IF r < 128 THEN <<r>>
    ELSE IF r < 2048 THEN <<192 + (r \div 64), 128 + (r % 64)>>
    ELSE IF IsHighSurrogate(r) \/ IsLowSurrogate(r) \/ r > 1114111
         THEN <<239, 191, 189>>
    ELSE IF r < 65536
         THEN <<224 + (r \div 4096), 128 + ((r \div 64) % 64), 128 + (r % 64)>>
    ELSE <<240 + (r \div 262144), 128 + ((r \div 4096) % 64),
           128 + ((r \div 64) % 64), 128 + (r % 64)>>

RECURSIVE RunesToString(_)
\* string(runes): the UTF-8 encoding, as a Go string.
RunesToString(runes) ==
    IF runes = <<>> THEN <<>>
    ELSE [k \in 1..Len(EncodeRune(runes[1])) |-> Chr(EncodeRune(runes[1])[k])]
         \o RunesToString(Tail(runes))

\* The loop `for i := 2; i+1 < len(b); i += 2`: one code unit per pair of
\* bytes after the BOM; a last odd byte is left out.
CodeUnits(b, bigEndian) ==
    [k \in 1..((Len(b) - 2) \div 2) |->
        IF bigEndian THEN b[2 * k + 1] * 256 + b[2 * k + 2]
        ELSE b[2 * k + 1] + b[2 * k + 2] * 256]

\* Mutant: the little-endian branch assembles the code units big-endian.
decodeFieldNameMutByteOrder(fieldName) ==
    LET b == [k \in 1..Len(fieldName) |-> Ord(fieldName[k])] IN
    IF Len(b) >= 2 /\ b[1] = 254 /\ b[2] = 255
    THEN RunesToString(utf16Decode(CodeUnits(b, TRUE)))
    ELSE IF Len(b) >= 2 /\ b[1] = 255 /\ b[2] = 254
    THEN RunesToString(utf16Decode(CodeUnits(b, TRUE)))
    ELSE fieldName
decodeFieldName(fieldName) ==
    LET b == [k \in 1..Len(fieldName) |-> Ord(fieldName[k])] IN
    IF Len(b) >= 2 /\ b[1] = 254 /\ b[2] = 255
    THEN RunesToString(utf16Decode(CodeUnits(b, TRUE)))
    ELSE IF Len(b) >= 2 /\ b[1] = 255 /\ b[2] = 254
    THEN RunesToString(utf16Decode(CodeUnits(b, FALSE)))
    ELSE fieldName

(***************************************************************************)
(* SpecDecode: decodeFieldName and matchFieldSigner on /T strings that     *)
(* are plain, UTF-16 big-endian or UTF-16 little-endian.                   *)
(***************************************************************************)
\* The runes of a string of ASCII characters.
Runes(str) == [k \in 1..Len(str) |-> Ord(str[k])]

\* Runes of field-name tails: J, 4, a, U+00E9, U+20AC, U+1F600.
TextRunes == {74, 52, 97, 233, 8364, 128512}

\* The texts field names spell: names of the two patterns with a tail, and
\* short texts of other shapes.
Texts ==
    {Runes(Concat(<<pattern.prefix, <<"7">>, pattern.infix>>)) \o tail :
        pattern \in {InitialsPattern, DatePattern},
        tail \in Strings(TextRunes, 0, MaxTextLen)}
    \cup Strings({74, 233, 128512}, 0, 1)

RECURSIVE utf16Encode(_)
\* The UTF-16 code units of a text.
utf16Encode(runes) ==
    IF runes = <<>> THEN <<>>
    ELSE (IF runes[1] < 65536 THEN <<runes[1]>>
          ELSE <<55296 + ((runes[1] - 65536) \div 1024),
                 56320 + ((runes[1] - 65536) % 1024)>>)
         \o utf16Encode(Tail(runes))

RECURSIVE UnitBytes(_, _)
\* The bytes of code units, most significant byte first or last.
UnitBytes(u16s, bigEndian) ==
    IF u16s = <<>> THEN <<>>
    ELSE (IF bigEndian THEN <<Chr(u16s[1] \div 256), Chr(u16s[1] % 256)>>
          ELSE <<Chr(u16s[1] % 256), Chr(u16s[1] \div 256)>>)
         \o UnitBytes(Tail(u16s), bigEndian)

\* The /T string of a text in each encoding.
Encoded(text, encoding) ==
    CASE encoding = "UTF-16BE" -> <<Chr(254), Chr(255)>> \o UnitBytes(utf16Encode(text), TRUE)
      [] encoding = "UTF-16LE" -> <<Chr(255), Chr(254)>> \o UnitBytes(utf16Encode(text), FALSE)
      [] encoding = "plain" -> RunesToString(text)

\* /T strings too short to hold a BOM, and a plain name of odd length.
ShortNames == {<<>>, <<Chr(254)>>, <<Chr(255)>>, <<"J">>, <<Chr(254), "J", "4">>}

DecodeUIDs == {<<"J">>, RunesToString(<<233>>), RunesToString(<<128512>>)}

InitDecode ==
    /\ \/ \E text \in Texts, encoding \in {"UTF-16BE", "UTF-16LE", "plain"},
             pattern \in {InitialsPattern, DatePattern}, uid \in DecodeUIDs :
             rawName = [T |-> Encoded(text, encoding), encoding |-> encoding,
                        text |-> text, pattern |-> pattern, uid |-> uid]
       \/ \E short \in ShortNames, pattern \in {InitialsPattern, DatePattern},
             uid \in DecodeUIDs :
             rawName = [T |-> short, encoding |-> "plain", text |-> <<>>,
                        pattern |-> pattern, uid |-> uid]
    /\ decoded = <<>>
    /\ IdleVerify /\ IdleMatch /\ IdleDate /\ IdleLayout /\ IdleDA /\ IdleAppearance /\ IdleFill /\ IdleImage

\* decodedFieldName := decodeFieldName(fieldName)
\* matched, _ := matchFieldSigner(decodedFieldName, pattern, uid)
DecodeFieldName ==
    /\ decoded = <<>>
    /\ decoded' =
          LET decodedFieldName == decodeFieldName(rawName.T) IN
          Ptr([decodedFieldName |-> decodedFieldName,
               matched |-> matchFieldSigner(decodedFieldName, rawName.pattern,
                                            rawName.uid).ok])
    /\ UNCHANGED <<verifyVars, field, matched, date, dateString, layoutVars, daVars, rawName, apVars, fillVars, imgVars>>

NextDecode == DecodeFieldName

SpecDecode == InitDecode /\ [][NextDecode]_vars

\* C19: a /T string that is a BOM (FE FF or FF FE) followed by the UTF-16
\* encoding of a text s is decoded to s, and the field matches a signer
\* exactly when the plain name s would; a name without a BOM, or shorter than
\* two bytes, is used unchanged.
C19_DecodedBeforeMatching ==
    decoded # <<>> =>
        /\ rawName.encoding \in {"UTF-16BE", "UTF-16LE"} =>
              /\ decoded[1].decodedFieldName = RunesToString(rawName.text)
              /\ decoded[1].matched =
                    matchFieldSigner(RunesToString(rawName.text), rawName.pattern,
                                     rawName.uid).ok
        /\ (\/ Len(rawName.T) < 2
            \/ <<rawName.T[1], rawName.T[IF Len(rawName.T) >= 2 THEN 2 ELSE 1]>>
                  \notin {<<Chr(254), Chr(255)>>, <<Chr(255), Chr(254)>>}) =>
              decoded[1].decodedFieldName = rawName.T

\* C19 witness: a little-endian date field name whose signer is U+00E9, for
\* the signer with that uid, is decoded and matches.
C19_Witness ==
    /\ decoded # <<>>
    /\ rawName.encoding = "UTF-16LE"
    /\ rawName.text = Runes(Concat(<<DatePattern.prefix, <<"7">>, DatePattern.infix>>)) \o <<233>>
    /\ rawName.uid = RunesToString(<<233>>)
    /\ decoded[1].decodedFieldName = Concat(<<DatePattern.prefix, <<"7">>, DatePattern.infix>>) \o <<Chr(195), Chr(169)>>
    /\ decoded[1].matched

(***************************************************************************)
(* createTextFieldAppearance (sign package).  Lengths and font sizes are   *)
(* in tenths of a point, text positions in thousandths; rectangles have    *)
(* whole-point corners and /DA sizes at most one decimal, a multiple of a  *)
(* half point when scaled, so that every product below is exact.           *)
(***************************************************************************)
MaxHeight == 30       \* largest height of a widget rectangle, in points

Tenths == 10                 \* tenths of a point in a point
DefaultFontSize == 10        \* fontSize := 10.0
dateFieldFontScale == 12     \* 1.2, in tenths
NoFontScale == 0             \* appearanceFontScale 0: no scaling
DefaultRect == <<0, 0, 100 * Tenths, 20 * Tenths>>

\* strconv.ParseFloat of digits with an optional fraction, in tenths.
ParseFloat(str) ==
    LET dot == Index(str, <<".">>) IN
    IF dot = 0 THEN ParseDecimal(str) * Tenths
    ELSE ParseDecimal(SubSeq(str, 1, dot - 1)) * Tenths + HexValue(str[dot + 1])

\* The font size of a /DA string, or the default.
daFontSize(daStr) ==
    LET m == FindSizeTf(daStr) IN
    IF Len(m) >= 2 THEN ParseFloat(m[2]) ELSE DefaultFontSize * Tenths

\* if fontSize > maxFontSize { fontSize = maxFontSize }
capFontSize(fontSize, maxFontSize) == IF fontSize > maxFontSize THEN maxFontSize ELSE fontSize

\* Mutant: the scaled size is not capped again.
scaleFontSizeMutNoSecondCap(fontSize, fontScale, maxFontSize) ==
    IF fontScale > 0 THEN (fontSize * fontScale) \div 10 ELSE fontSize
\* if fontScale > 0 { fontSize *= fontScale; capped again }, the product
\* compared with maxFontSize in hundredths
scaleFontSize(fontSize, fontScale, maxFontSize) ==
    IF fontScale > 0
    THEN IF fontSize * fontScale > maxFontSize * 10 THEN maxFontSize
         ELSE (fontSize * fontScale) \div 10
    ELSE fontSize

\* The form XObject, by its /BBox, the font size, the text position (in
\* thousandths) and the text.
textFieldXObject(text, width, height, fontSize) ==
    [err |-> FALSE, BBox |-> <<0, 0, width, height>>, fontSize |-> fontSize,
     Td |-> <<IF 50 * width - 30 * Len(text) * fontSize < 1000 THEN 1000
              ELSE 50 * width - 30 * Len(text) * fontSize,
              50 * (height - fontSize) + 20 * fontSize>>,
     text |-> text]

\* createTextFieldAppearance(text, rect, da, fontScale); maxFontSize is
\* height * 0.7.
createTextFieldAppearance(text, rect, daStr, fontScale) ==
    IF rect[3] - rect[1] <= 0 \/ rect[4] - rect[2] <= 0 THEN [err |-> TRUE]
    ELSE textFieldXObject(text, rect[3] - rect[1], rect[4] - rect[2],
                          scaleFontSize(capFontSize(daFontSize(daStr),
                                                    ((rect[4] - rect[2]) * 7) \div 10),
                                        fontScale, ((rect[4] - rect[2]) * 7) \div 10))

(***************************************************************************)
(* SpecAppearance: createTextFieldAppearance for one widget, without and   *)
(* with the date fields' font scale.                                       *)
(***************************************************************************)
\* Normalized /DA strings, by their size.
DASizes == {<<"1", "0">>, <<"0">>, <<"8">>, <<"1", "2">>, <<"1", "2", ".", "5">>, <<"1", "4">>, <<"2", "0">>}

WidgetRects ==
    {<<x, 0, x + w * Tenths, h * Tenths>> : x \in {0, 50 * Tenths}, w \in {0, 100}, h \in 0..MaxHeight}

\* /DA strings handed to createTextFieldAppearance: normalized ones with a
\* size, and strings that carry no size.
WidgetDAs ==
    {normalizeDA(<<"/", "H", "e", "l", "v", " ">> \o size \o <<" ", "T", "f", " ", "0", " ", "g">>) :
        size \in DASizes}
    \cup {<<>>, <<"/", "H", "e", "l", "v", " ", "T", "f">>}

InitAppearance ==
    /\ \E rect \in WidgetRects, daStr \in WidgetDAs :
          widget = [text |-> <<"J", "D">>, rect |-> rect, da |-> daStr]
    /\ appearance = [plain |-> Nil, scaled |-> Nil]
    /\ IdleVerify /\ IdleMatch /\ IdleDate /\ IdleLayout /\ IdleDA /\ IdleName /\ IdleFill /\ IdleImage

\* appearance, err := context.createTextFieldAppearance(value, rect, da, 0)
CreatePlainAppearance ==
    /\ appearance.plain = Nil
    /\ appearance' = [appearance EXCEPT !.plain =
          Ptr(createTextFieldAppearance(widget.text, widget.rect, widget.da, NoFontScale))]
    /\ UNCHANGED <<verifyVars, field, matched, date, dateString, layoutVars, daVars, nameVars, widget, fillVars, imgVars>>

\* appearance, err := context.createTextFieldAppearance(value, rect, da, dateFieldFontScale)
CreateScaledAppearance ==
    /\ appearance.scaled = Nil
    /\ appearance' = [appearance EXCEPT !.scaled =
          Ptr(createTextFieldAppearance(widget.text, widget.rect, widget.da, dateFieldFontScale))]
    /\ UNCHANGED <<verifyVars, field, matched, date, dateString, layoutVars, daVars, nameVars, widget, fillVars, imgVars>>

NextAppearance == CreatePlainAppearance \/ CreateScaledAppearance

SpecAppearance == InitAppearance /\ [][NextAppearance]_vars

\* Both appearances of the widget were created.
BothCreated ==
    /\ appearance # <<>>
    /\ appearance.plain # Nil /\ appearance.scaled # Nil
    /\ ~appearance.plain[1].err /\ ~appearance.scaled[1].err

Created ==
    IF appearance = <<>> THEN {}
    ELSE {appearance[k][1] : k \in {n \in {"plain", "scaled"} : appearance[n] # Nil}}

\* The rectangle of the widget has positive width and height.
ValidRect ==
    /\ widget.rect[3] - widget.rect[1] > 0
    /\ widget.rect[4] - widget.rect[2] > 0

\* C29: for a rectangle with positive width and height, every /DA string
\* (without a size or with size 0 included) and both font scales, the font
\* size written by createTextFieldAppearance is strictly positive and at most
\* 0.7 times the field height; any other rectangle yields an error.
C29_FontSizeInRange ==
    \A a \in Created :
        IF ValidRect
        THEN /\ ~a.err
             /\ a.fontSize > 0
             /\ 10 * a.fontSize <= 7 * (widget.rect[4] - widget.rect[2])
        ELSE a.err

\* The part of C29 that holds: the size is at most 0.7 times the height and
\* positive unless the /DA string gives size 0, which is written as it is.
FontSizeInRangeUnlessZero ==
    \A a \in Created :
        IF ValidRect
        THEN /\ ~a.err
             /\ 10 * a.fontSize <= 7 * (widget.rect[4] - widget.rect[2])
             /\ IF daFontSize(widget.da) = 0 THEN a.fontSize = 0 ELSE a.fontSize > 0
        ELSE a.err

(***************************************************************************)
(* The form-field filler (sign package): fillInitialsFields,               *)
(* fillDateFields, fillFormFields and updateFieldObject.                   *)
(*                                                                         *)
(* A pdf.Value that is a dictionary is [id, dict]: id is the object number *)
(* of its pointer (0 for a direct object) and dict maps its keys to their  *)
(* resolved values.  A replacement dictionary is the map of the keys       *)
(* written into the buffer handed to updateObject.                         *)
(***************************************************************************)
MaxFields == 2        \* entries of AcroForm/Fields
MaxNameLen == 3       \* runes of an enumerated signer name

\* value.Key(key) is not null
Has(d, key) == key \in DOMAIN d
\* value.Key(key).RawString(), "" for a null value
RawString(d, key) == IF Has(d, key) THEN d[key] ELSE <<>>

RECURSIVE BitOr(_, _)
\* a | b on non-negative integers
BitOr(a, b) ==
    IF a = 0 THEN b
    ELSE IF b = 0 THEN a
    ELSE 2 * BitOr(a \div 2, b \div 2) + (IF a % 2 = 1 \/ b % 2 = 1 THEN 1 ELSE 0)

\* rectVal := v.Key("Rect"); !rectVal.IsNull() && rectVal.Kind() == pdf.Array
\* && rectVal.Len() >= 4
HasRect(d) == Has(d, "Rect") /\ Len(d.Rect) >= 4

\* getFieldRect(field): the rectangle of the first kid, or the default size.
getFieldRect(fieldVal) ==
    IF Has(fieldVal.dict, "Kids") /\ Len(fieldVal.dict.Kids) > 0
    THEN LET firstKid == fieldVal.dict.Kids[1] IN
         IF HasRect(firstKid.dict) THEN SubSeq(firstKid.dict.Rect, 1, 4) ELSE DefaultRect
    ELSE DefaultRect

\* The rectangle of a kid widget: its own /Rect, or the default size.
kidRect(kid) == IF HasRect(kid.dict) THEN SubSeq(kid.dict.Rect, 1, 4) ELSE DefaultRect

\* The object number context.addObject gives the next added object: numbers
\* are allocated above every object of the document.
LastObjectId == 10 * (MaxFields + 1)
addObjectId(ctx) == LastObjectId + Len(ctx.added) + 1

\* newFf := existingFf | 2
newFf(existingFf) == BitOr(existingFf, 2)

\* The keys of the fields and widgets of the documents, in the order of
\* field.Keys().
KeyOrder == <<"AP", "AS", "DA", "FT", "Ff", "Kids", "Rect", "T", "V">>

\* Mutant: /T is written as the document holds it.
keyEntryMutRawT(d, key, apRef) ==
    IF ~Has(d, key) \/ key \in {"V", "Ff"} THEN <<>>
    ELSE IF key = "AP"
    THEN IF apRef # Nil THEN <<[key |-> "AP", val |-> [N |-> apRef[1]]]>> ELSE <<>>
    ELSE IF key = "DA" THEN <<[key |-> "DA", val |-> normalizeDA(d.DA)]>>
    ELSE <<[key |-> key, val |-> d[key]]>>
\* What the loop over field.Keys() writes for one key: nothing for /V and
\* /Ff, the reference of the added appearance for /AP, and the entry itself
\* for every other key (/T decoded, /DA normalized).
keyEntry(d, key, apRef) ==
    IF ~Has(d, key) \/ key \in {"V", "Ff"} THEN <<>>
    ELSE IF key = "AP"
    THEN IF apRef # Nil THEN <<[key |-> "AP", val |-> [N |-> apRef[1]]]>> ELSE <<>>
    ELSE IF key = "T" THEN <<[key |-> "T", val |-> decodeFieldName(d.T)]>>
    ELSE IF key = "DA" THEN <<[key |-> "DA", val |-> normalizeDA(d.DA)]>>
    ELSE <<[key |-> key, val |-> d[key]]>>

\* The /Ff entry written after the loop.
flagsEntry(d, makeReadOnly) ==
    IF makeReadOnly THEN <<[key |-> "Ff", val |-> newFf(IF Has(d, "Ff") THEN d.Ff ELSE 0)]>>
    ELSE IF Has(d, "Ff") THEN <<[key |-> "Ff", val |-> d.Ff]>>
    ELSE <<>>

\* The entries of the dictionary written to buf for a field or a kid, in
\* order: those of the loop, then /Ff, /V and /AS.
written(d, value, makeReadOnly, apRef) ==
    Concat([n \in 1..Len(KeyOrder) |-> keyEntry(d, KeyOrder[n], apRef)])
    \o flagsEntry(d, makeReadOnly)
    \o <<[key |-> "V", val |-> value], [key |-> "AS", val |-> value]>>

\* The dictionary of a sequence of entries, a key written twice having the
\* value written last.
lastValues(entries) ==
    [key \in {entries[n].key : n \in 1..Len(entries)} |->
        entries[CHOOSE n \in 1..Len(entries) :
                   /\ entries[n].key = key
                   /\ \A m \in (n + 1)..Len(entries) : entries[m].key # key].val]

\* context.addObject(appearance): the object is appended to the update.
addObject(ctx, ap) ==
    [ctx EXCEPT !.added = Append(@, [id |-> addObjectId(ctx), xobject |-> ap])]

\* context.updateObject(id, buf): the replacement is recorded, or the error
\* is returned for an object whose update fails.
updateObject(ctx, id, buf) ==
    IF id \in updateErrs THEN [ctx EXCEPT !.err = Ptr(id)]
    ELSE [ctx EXCEPT !.updated = Append(@, [id |-> id, buf |-> buf,
                                            dict |-> lastValues(buf)])]

\* context.addObject(apStream) and context.updateObject(id, buf) of one
\* dictionary, ap being the appearance created for it: the appearance is
\* added when the dictionary has an /AP key and ap is no error.
writeDictionary(ctx, val, ap, value, makeReadOnly) ==
    IF Has(val.dict, "AP") /\ ~ap.err
    THEN updateObject(addObject(ctx, ap), val.id,
                      written(val.dict, value, makeReadOnly, Ptr(addObjectId(ctx))))
    ELSE updateObject(ctx, val.id, written(val.dict, value, makeReadOnly, Nil))

\* The update of one indirect dictionary: the appearance is created from
\* the rectangle and the normalized /DA, and the replacement is written.
updateDictionary(ctx, val, rect, value, makeReadOnly, appearanceFontScale) ==
    writeDictionary(ctx, val,
                    createTextFieldAppearance(value, rect,
                                              normalizeDA(RawString(val.dict, "DA")),
                                              appearanceFontScale),
                    value, makeReadOnly)

\* Mutant: the loop over the kids goes on after a failed update.
updateKidMutContinue(ctx, kid, value, makeReadOnly, appearanceFontScale) ==
    IF kid.id = 0 THEN ctx
    ELSE updateDictionary(ctx, kid, kidRect(kid), value, makeReadOnly, appearanceFontScale)
\* One iteration of the loop over the kids: nothing runs after an error was
\* returned, and direct kids are skipped.
updateKid(ctx, kid, value, makeReadOnly, appearanceFontScale) ==
    IF ctx.err # Nil THEN ctx
    ELSE IF kid.id = 0 THEN ctx
    ELSE updateDictionary(ctx, kid, kidRect(kid), value, makeReadOnly, appearanceFontScale)

RECURSIVE updateKids(_, _, _, _, _, _)
\* for k := 0; k < kids.Len(); k++
updateKids(ctx, kids, k, value, makeReadOnly, appearanceFontScale) ==
    IF k > Len(kids) THEN ctx
    ELSE updateKids(updateKid(ctx, kids[k], value, makeReadOnly, appearanceFontScale),
                    kids, k + 1, value, makeReadOnly, appearanceFontScale)

\* if !kids.IsNull() && kids.Kind() == pdf.Array { for k ... }
updateFieldKids(ctx, fieldVal, value, makeReadOnly, appearanceFontScale) ==
    IF Has(fieldVal.dict, "Kids")
    THEN updateKids(ctx, fieldVal.dict.Kids, 1, value, makeReadOnly, appearanceFontScale)
    ELSE ctx

\* Mutant: the kids of a direct field are not visited.
updateFieldObjectMutSkipDirect(ctx, fieldVal, value, makeReadOnly, appearanceFontScale) ==
    IF fieldVal.id = 0 THEN ctx
    ELSE updateFieldKids(updateDictionary(ctx, fieldVal, getFieldRect(fieldVal), value,
                                          makeReadOnly, appearanceFontScale),
                         fieldVal, value, makeReadOnly, appearanceFontScale)
\* updateFieldObject(field, value, makeReadOnly, appearanceFontScale)
updateFieldObject(ctx, fieldVal, value, makeReadOnly, appearanceFontScale) ==
    updateFieldKids(IF fieldVal.id = 0 THEN ctx
                    ELSE updateDictionary(ctx, fieldVal, getFieldRect(fieldVal), value,
                                          makeReadOnly, appearanceFontScale),
                    fieldVal, value, makeReadOnly, appearanceFontScale)

(***************************************************************************)
(* The initials of a name.                                                 *)
(***************************************************************************)
RECURSIVE RunesOf(_)
\* []rune(str) for a string of valid UTF-8.
RunesOf(str) ==
    IF str = <<>> THEN <<>>
    ELSE LET b == Ord(str[1])
             Cont(k) == Ord(str[k]) - 128
         IN IF b < 128 THEN <<b>> \o RunesOf(Tail(str))
            ELSE IF b < 224 /\ Len(str) >= 2
                 THEN <<(b - 192) * 64 + Cont(2)>> \o RunesOf(SubSeq(str, 3, Len(str)))
            ELSE IF b < 240 /\ Len(str) >= 3
                 THEN <<(b - 224) * 4096 + Cont(2) * 64 + Cont(3)>>
                      \o RunesOf(SubSeq(str, 4, Len(str)))
            ELSE IF Len(str) >= 4
                 THEN <<(b - 240) * 262144 + Cont(2) * 4096 + Cont(3) * 64 + Cont(4)>>
                      \o RunesOf(SubSeq(str, 5, Len(str)))
            ELSE <<ReplacementChar>> \o RunesOf(Tail(str))

\* unicode.ToUpper on ASCII and Latin-1 letters.
ToUpper(r) ==
    IF r \in 97..122 THEN r - 32
    ELSE IF r \in 224..254 /\ r # 247 THEN r - 32
    ELSE IF r = 255 THEN 376
    ELSE IF r = 181 THEN 924
    ELSE r

\* Mutant: the first rune is not upper-cased.
initialsOfMutNoUpper(name) ==
    LET parts == Fields(name) IN
    RunesToString([k \in 1..Len(parts) |-> RunesOf(parts[k])[1]])
\* The initials fillInitialsFields computes: the upper-cased first rune of
\* each part of strings.Fields(name).
initialsOf(name) ==
    LET parts == Fields(name) IN
    RunesToString([k \in 1..Len(parts) |-> ToUpper(RunesOf(parts[k])[1])])

(***************************************************************************)
(* SpecFill: the initials pass and the date pass over a document.          *)
(***************************************************************************)
SignerJ == <<"J">>
FieldName(pattern, tail) == Concat(<<pattern.prefix, <<"7">>, pattern.infix, tail>>)

Rect(w, h) == <<10 * Tenths, 10 * Tenths, (10 + w) * Tenths, (10 + h) * Tenths>>

\* Fields as documents hold them: whether the field and each kid is an
\* indirect object, and their dictionaries.
FieldTemplates ==
    {\* an indirect field that is its own widget
     [ind |-> TRUE, kids |-> <<>>,
      dict |-> ("T" :> FieldName(InitialsPattern, SignerJ)) @@ ("FT" :> "Tx")
               @@ ("AP" :> [N |-> 1]) @@ ("Rect" :> Rect(200, 30))
               @@ ("DA" :> <<"/", "H", "e", "l", "v", " ", "1", "2", " ", "T", "f", " ", "0", " ", "g">>)],
     \* an indirect date field, its name in UTF-16, with one indirect kid
     [ind |-> TRUE,
      kids |-> <<[ind |-> TRUE,
                  dict |-> ("AP" :> [N |-> 2]) @@ ("Rect" :> Rect(150, 25))
                           @@ ("Ff" :> 1) @@ ("AS" :> <<"O", "f", "f">>) @@ ("DA" :> <<"/", "H", "e", "l", "v", " ", "8", " ", "T", "f">>)]>>,
      dict |-> ("T" :> Encoded(Runes(FieldName(DatePattern, SignerJ)), "UTF-16BE"))
               @@ ("FT" :> "Tx") @@ ("Ff" :> 4) @@ ("AP" :> [N |-> 3])
               @@ ("V" :> <<"o", "l", "d">>)],
     \* a direct initials field with a direct and an indirect kid
     [ind |-> FALSE,
      kids |-> <<[ind |-> FALSE, dict |-> ("Rect" :> Rect(50, 20))],
                 [ind |-> TRUE, dict |-> ("AP" :> [N |-> 4]) @@ ("Ff" :> 2)]>>,
      dict |-> ("T" :> FieldName(InitialsPattern, SignerJ))],
     \* a field of another signer
     [ind |-> TRUE, kids |-> <<>>,
      dict |-> ("T" :> FieldName(InitialsPattern, <<"K">>)) @@ ("AP" :> [N |-> 5])],
     \* a field without a name, whose kid carries a matching name
     [ind |-> TRUE,
      kids |-> <<[ind |-> TRUE,
                  dict |-> ("T" :> FieldName(DatePattern, SignerJ))
                           @@ ("AP" :> [N |-> 6])]>>,
      dict |-> ("FT" :> "Tx")],
     \* a date field named with the hex form of the uid, without appearance
     [ind |-> TRUE, kids |-> <<>>,
      dict |-> ("T" :> FieldName(DatePattern, hexEncodeToString(SignerJ)))
               @@ ("Ff" :> 3) @@ ("Rect" :> Rect(120, 18))],
     \* a date field whose kid has an empty rectangle
     [ind |-> TRUE,
      kids |-> <<[ind |-> TRUE,
                  dict |-> ("AP" :> [N |-> 7]) @@ ("Rect" :> Rect(100, 0))]>>,
      dict |-> ("T" :> FieldName(DatePattern, SignerJ)) @@ ("AP" :> [N |-> 8])],
     \* a date field of another signer
     [ind |-> TRUE, kids |-> <<>>,
      dict |-> ("T" :> FieldName(DatePattern, <<"K">>)) @@ ("AP" :> [N |-> 9])
               @@ ("Ff" :> 1)]}

\* The pdf.Value of a template at position pos of the Fields array: object
\* number 10 pos for the field, 10 pos + k for its k-th kid.
Place(t, pos) ==
    LET kids == [k \in 1..Len(t.kids) |->
                    [id |-> IF t.kids[k].ind THEN 10 * pos + k ELSE 0,
                     dict |-> t.kids[k].dict]]
    IN [id |-> IF t.ind THEN 10 * pos ELSE 0,
        dict |-> IF kids = <<>> THEN t.dict ELSE t.dict @@ ("Kids" :> kids)]

Documents ==
    {[AcroForm |-> "absent", Fields |-> <<>>], [AcroForm |-> "noFields", Fields |-> <<>>]}
    \cup {[AcroForm |-> "fields", Fields |-> [pos \in 1..Len(ts) |-> Place(ts[pos], pos)]] :
            ts \in UNION {[1..n -> FieldTemplates] : n \in 0..MaxFields}}

SignTimes ==
    {Nil,
     Ptr([year |-> 2024, month |-> 1, day |-> 15, hour |-> 14, minute |-> 30,
          offset |-> SecondsPerHour])}

\* Runes of signer names: j, D, space, U+00E9.
NameRunes == {106, 68, 32, 233}

InitFill ==
    /\ \/ \E uid \in {<<>>, SignerJ}, name \in {<<>>, <<" ">>, <<"j", "o", "h", "n", " ", "d", "o", "e">>},
             t \in SignTimes, d \in Documents :
             /\ signData = [SignerUID |-> uid, Name |-> name, Date |-> t,
                            DateFormat |-> <<>>, Locale |-> <<"d", "e", "-", "D", "E">>]
             /\ doc = d
       \/ \E runes \in Strings(NameRunes, 0, MaxNameLen) :
             /\ signData = [SignerUID |-> SignerJ, Name |-> RunesToString(runes),
                            Date |-> Nil, DateFormat |-> <<>>, Locale |-> <<>>]
             /\ doc = [AcroForm |-> "fields",
                       Fields |-> <<Place(CHOOSE t \in FieldTemplates :
                                            /\ t.ind /\ Has(t.dict, "T") /\ Has(t.dict, "AP")
                                            /\ RawString(t.dict, "T") =
                                                  FieldName(InitialsPattern, SignerJ), 1)>>]
    /\ updateErrs = {}
    /\ fillPass = Nil
    /\ fieldIdx = 0
    /\ added = <<>>
    /\ updated = <<>>
    /\ passes = <<>>
    /\ IdleVerify /\ IdleMatch /\ IdleDate /\ IdleLayout /\ IdleDA /\ IdleName
    /\ IdleAppearance /\ IdleImage

\* The pass kind was not run yet, no pass is running, and no pass returned
\* an error.
CanFill(kind) ==
    /\ fillPass = Nil
    /\ \A k \in 1..Len(passes) : passes[k].kind # kind /\ passes[k].err = Nil

\* A pass that returned err after examining the first `examined` fields: the
\* updateObject calls first..last that succeeded are its own.
PassReturned(p, examined, last, err) ==
    [kind |-> p.kind, pattern |-> p.pattern, value |-> p.value,
     first |-> p.first, last |-> last, examined |-> examined, err |-> err]

\* A pass that returned nil before its loop.
PassRecord(kind, pattern, value) ==
    PassReturned([kind |-> kind, pattern |-> pattern, value |-> value,
                  first |-> Len(updated) + 1], 0, Len(updated), Nil)

\* fillFormFields returns before its loop: no signer uid, an empty value, no
\* AcroForm, or no Fields.
fillFormFieldsEarly(uid, value) ==
    uid = <<>> \/ value = <<>> \/ doc.AcroForm = "absent" \/ doc.AcroForm = "noFields"

\* fillFormFields(pattern, getValue, makeReadOnly, appearanceFontScale) up to
\* its loop, for a pass of the given kind.
StartPass(kind, pattern, value, appearanceFontScale) ==
    IF fillFormFieldsEarly(signData.SignerUID, value)
    THEN /\ passes' = Append(passes, PassRecord(kind, pattern, value))
         /\ UNCHANGED <<fillPass, fieldIdx>>
    ELSE /\ fillPass' = Ptr([kind |-> kind, pattern |-> pattern, value |-> value,
                             makeReadOnly |-> TRUE,
                             appearanceFontScale |-> appearanceFontScale,
                             first |-> Len(updated) + 1])
         /\ fieldIdx' = 1
         /\ UNCHANGED passes

\* fillInitialsFields(), up to the loop of fillFormFields
FillInitialsFields ==
    /\ CanFill("initials")
    /\ IF signData.Name = <<>>
       THEN /\ passes' = Append(passes, PassRecord("initials", InitialsPattern, <<>>))
            /\ UNCHANGED <<fillPass, fieldIdx>>
       ELSE StartPass("initials", InitialsPattern, initialsOf(signData.Name), NoFontScale)
    /\ UNCHANGED <<signData, doc, updateErrs, added, updated>>
    /\ UNCHANGED <<verifyVars, field, matched, date, dateString, layoutVars, daVars,
                   nameVars, apVars, imgVars>>

\* fillDateFields(), up to the loop of fillFormFields
FillDateFields ==
    /\ CanFill("date")
    /\ IF signData.Date = Nil
       THEN /\ passes' = Append(passes, PassRecord("date", DatePattern, <<>>))
            /\ UNCHANGED <<fillPass, fieldIdx>>
       ELSE LET layout == resolveDateLayout(signData.DateFormat, signData.Locale)
            IN StartPass("date", DatePattern,
                         formatDateString(signData.Date[1], layout), dateFieldFontScale)
    /\ UNCHANGED <<signData, doc, updateErrs, added, updated>>
    /\ UNCHANGED <<verifyVars, field, matched, date, dateString, layoutVars, daVars,
                   nameVars, apVars, imgVars>>

\* The field's /T is not null and names the signer under the pattern.
fieldMatches(fieldVal, pattern, uid) ==
    IF Has(fieldVal.dict, "T")
    THEN matchFieldSigner(decodeFieldName(fieldVal.dict.T), pattern, uid).ok
    ELSE FALSE

\* The loop goes on after updateFieldObject returned nil, and fillFormFields
\* returns the error otherwise.
AfterUpdate(ctx) ==
    /\ added' = ctx.added
    /\ updated' = ctx.updated
    /\ IF ctx.err = Nil
       THEN /\ fieldIdx' = fieldIdx + 1
            /\ UNCHANGED <<fillPass, passes>>
       ELSE /\ passes' = Append(passes, PassReturned(fillPass[1], fieldIdx,
                                                     Len(ctx.updated), ctx.err))
            /\ fillPass' = Nil
            /\ fieldIdx' = 0

\* One iteration of `for i := 0; i < fields.Len(); i++` in fillFormFields.
FillNextField ==
    /\ fillPass # Nil
    /\ fieldIdx <= Len(doc.Fields)
    /\ IF fieldMatches(doc.Fields[fieldIdx], fillPass[1].pattern, signData.SignerUID)
       THEN AfterUpdate(updateFieldObject([added |-> added, updated |-> updated,
                                           err |-> Nil],
                                          doc.Fields[fieldIdx], fillPass[1].value,
                                          fillPass[1].makeReadOnly,
                                          fillPass[1].appearanceFontScale))
       ELSE /\ fieldIdx' = fieldIdx + 1
            /\ UNCHANGED <<added, updated, fillPass, passes>>
    /\ UNCHANGED <<signData, doc, updateErrs>>
    /\ UNCHANGED <<verifyVars, field, matched, date, dateString, layoutVars, daVars,
                   nameVars, apVars, imgVars>>

\* fillFormFields returns nil after its loop.
FillReturn ==
    /\ fillPass # Nil
    /\ fieldIdx > Len(doc.Fields)
    /\ passes' = Append(passes, PassReturned(fillPass[1], Len(doc.Fields),
                                             Len(updated), Nil))
    /\ fillPass' = Nil
    /\ fieldIdx' = 0
    /\ UNCHANGED <<signData, doc, updateErrs, added, updated>>
    /\ UNCHANGED <<verifyVars, field, matched, date, dateString, layoutVars, daVars,
                   nameVars, apVars, imgVars>>

NextFill == FillInitialsFields \/ FillDateFields \/ FillNextField \/ FillReturn

SpecFill == InitFill /\ [][NextFill]_vars

(***************************************************************************)
(* SpecFillErr: the fill passes when context.updateObject fails for some   *)
(* objects.                                                                *)
(***************************************************************************)
\* An indirect initials field with two indirect kids.
TwoKidField ==
    [ind |-> TRUE,
     kids |-> <<[ind |-> TRUE, dict |-> ("AP" :> [N |-> 11]) @@ ("Rect" :> Rect(60, 20))],
                [ind |-> TRUE, dict |-> ("AP" :> [N |-> 12]) @@ ("Rect" :> Rect(60, 20))]>>,
     dict |-> ("T" :> FieldName(InitialsPattern, SignerJ)) @@ ("FT" :> "Tx")]

\* The fields of the documents whose updates may fail: the one above, and
\* the fields of the signer with at most one indirect kid.
ErrTemplates ==
    {TwoKidField}
    \cup {t \in FieldTemplates :
             /\ Has(t.dict, "T")
             /\ RawString(t.dict, "T") \in {FieldName(InitialsPattern, SignerJ),
                                           FieldName(DatePattern, SignerJ)}}

ErrDocuments ==
    {[AcroForm |-> "fields", Fields |-> [pos \in 1..Len(ts) |-> Place(ts[pos], pos)]] :
        ts \in UNION {[1..n -> ErrTemplates] : n \in 1..MaxFields}}

\* The object numbers of the fields of a document and of their kids.
IdsOf(d) ==
    UNION {({d.Fields[n].id}
            \cup (IF Has(d.Fields[n].dict, "Kids")
                  THEN {d.Fields[n].dict.Kids[k].id : k \in 1..Len(d.Fields[n].dict.Kids)}
                  ELSE {})) \ {0} : n \in 1..Len(d.Fields)}

InitFillErr ==
    /\ \E d \in ErrDocuments, t \in SignTimes \ {Nil} :
          /\ signData = [SignerUID |-> SignerJ,
                         Name |-> <<"j", "o", "h", "n", " ", "d", "o", "e">>, Date |-> t,
                         DateFormat |-> <<>>, Locale |-> <<>>]
          /\ doc = d
          /\ \E id \in IdsOf(d) : updateErrs \in {{}, {id}}
    /\ fillPass = Nil
    /\ fieldIdx = 0
    /\ added = <<>>
    /\ updated = <<>>
    /\ passes = <<>>
    /\ IdleVerify /\ IdleMatch /\ IdleDate /\ IdleLayout /\ IdleDA /\ IdleName
    /\ IdleAppearance /\ IdleImage

SpecFillErr == InitFillErr /\ [][NextFill]_vars

(***************************************************************************)
(* Properties of the fill passes.                                          *)
(***************************************************************************)
\* The updateObject calls of pass k of passes.
UpdatesOf(k) == {u \in 1..Len(updated) : passes[k].first <= u /\ u <= passes[k].last}
\* The updateObject calls the running pass has made.
UpdatesOfRunning == {u \in 1..Len(updated) : fillPass[1].first <= u}

\* White space among the runes below U+0100.
IsSpaceRune(r) == r \in {9, 10, 11, 12, 13, 32, 133, 160}

\* The runes that start a part of the name: not white space, and first or
\* after white space.
PartStarts(runes) ==
    {u \in 1..Len(runes) : ~IsSpaceRune(runes[u]) /\ (u = 1 \/ IsSpaceRune(runes[u - 1]))}

RECURSIVE InOrder(_, _)
\* The upper-cased runes at the positions of the set, in order.
InOrder(runes, positions) ==
    IF positions = {} THEN <<>>
    ELSE LET u == CHOOSE p \in positions : \A q \in positions : p <= q
         IN <<ToUpper(runes[u])>> \o InOrder(runes, positions \ {u})

\* The initials the signer name stands for.
ExpectedInitials ==
    RunesToString(InOrder(RunesOf(signData.Name), PartStarts(RunesOf(signData.Name))))

\* C14: every value the initials pass writes is the concatenation, in order,
\* of the upper-cased first rune of each white-space-separated part of the
\* signer name, and with empty initials the pass fills no field.
C14_InitialsValue ==
    /\ \A k \in 1..Len(passes) :
          passes[k].kind = "initials" =>
             /\ \A u \in UpdatesOf(k) : updated[u].dict.V = ExpectedInitials
             /\ ExpectedInitials = <<>> => UpdatesOf(k) = {}
    /\ (fillPass # Nil /\ fillPass[1].kind = "initials") =>
          /\ ExpectedInitials # <<>>
          /\ \A u \in UpdatesOfRunning : updated[u].dict.V = ExpectedInitials

\* An initials pass returned after writing initials of two parts, one of
\* them from a rune outside ASCII.
C14_Witness ==
    \E k \in 1..Len(passes) :
       /\ passes[k].kind = "initials"
       /\ UpdatesOf(k) # {}
       /\ Len(RunesOf(passes[k].value)) = 2
       /\ 201 \in {RunesOf(passes[k].value)[n] : n \in 1..2}
       /\ \A u \in UpdatesOf(k) : updated[u].dict.V = passes[k].value

\* The indirect objects of the document's fields and of their kids.
FieldObjects ==
    {doc.Fields[n] : n \in {m \in 1..Len(doc.Fields) : doc.Fields[m].id # 0}}
    \cup UNION {{doc.Fields[n].dict.Kids[k] :
                    k \in {m \in 1..Len(doc.Fields[n].dict.Kids) :
                              doc.Fields[n].dict.Kids[m].id # 0}} :
                n \in {m \in 1..Len(doc.Fields) : Has(doc.Fields[m].dict, "Kids")}}

\* The dictionary the document holds for an updated object.
OriginalOf(id) == (CHOOSE o \in FieldObjects : o.id = id).dict

\* Field flag bit position 1 of /Ff, ReadOnly, has value 1.
HasReadOnlyFlag(ff) == ff % 2 = 1

\* C15: every replacement dictionary written by a fill pass has an /Ff in
\* which the PDF ReadOnly flag is set and every flag bit of the original /Ff
\* is still set, whether or not the original had an /Ff.
C15_FilledFieldsLocked ==
    \A u \in 1..Len(updated) :
       /\ Has(updated[u].dict, "Ff")
       /\ HasReadOnlyFlag(updated[u].dict.Ff)
       /\ LET orig == OriginalOf(updated[u].id) IN
          Has(orig, "Ff") => BitOr(updated[u].dict.Ff, orig.Ff) = updated[u].dict.Ff

\* What does hold of the flags: /Ff is written with the original bits and
\* bit position 2.
FlagsKeptAndBitTwoSet ==
    \A u \in 1..Len(updated) :
       /\ Has(updated[u].dict, "Ff")
       /\ (updated[u].dict.Ff \div 2) % 2 = 1
       /\ LET orig == OriginalOf(updated[u].id) IN
          Has(orig, "Ff") => BitOr(updated[u].dict.Ff, orig.Ff) = updated[u].dict.Ff

\* The object a replacement's /AP << /N ref >> refers to is one of the added
\* form XObjects.
AppearanceOf(d) == {a \in {added[n] : n \in 1..Len(added)} : a.id = d.AP.N}

\* C16: every updated dictionary gets an /AP << /N ref >> that points to a
\* newly added form XObject whose /BBox is [0 0 w h], w and h being the
\* width and height of that dictionary's own /Rect.
C16_AppearanceSizedToRect ==
    \A u \in 1..Len(updated) :
       /\ Has(updated[u].dict, "AP")
       /\ AppearanceOf(updated[u].dict) # {}
       /\ LET orig == OriginalOf(updated[u].id) IN
          HasRect(orig) =>
             \A a \in AppearanceOf(updated[u].dict) :
                a.xobject.BBox = <<0, 0, orig.Rect[3] - orig.Rect[1],
                                   orig.Rect[4] - orig.Rect[2]>>

\* The top-level fields a pass is about: named, and the decoded name matches
\* the pattern for the configured signer.
FieldsOfSigner(pattern) ==
    {n \in 1..Len(doc.Fields) :
        /\ Has(doc.Fields[n].dict, "T")
        /\ matchFieldSigner(decodeFieldName(doc.Fields[n].dict.T), pattern,
                            signData.SignerUID).ok}

\* The object numbers of a field and of its kids, direct objects left out.
IdsOfField(fieldVal) ==
    ({fieldVal.id}
     \cup (IF Has(fieldVal.dict, "Kids")
           THEN {fieldVal.dict.Kids[k].id : k \in 1..Len(fieldVal.dict.Kids)}
           ELSE {})) \ {0}

\* The objects a pass is to update.
ExpectedUpdates(pattern, value) ==
    IF signData.SignerUID = <<>> \/ value = <<>> \/ doc.AcroForm # "fields"
    THEN {}
    ELSE UNION {IdsOfField(doc.Fields[n]) : n \in FieldsOfSigner(pattern)}

\* C20: a fill pass calls updateObject exactly for the indirect objects of
\* the top-level fields matching its pattern for the configured signer and
\* for the indirect kids of those fields, once each, and for nothing when
\* the signer uid or the value is empty or the AcroForm or its Fields is
\* absent.
C20_OnlySignersFields ==
    \A k \in 1..Len(passes) :
       /\ {updated[u].id : u \in UpdatesOf(k)}
             = ExpectedUpdates(passes[k].pattern, passes[k].value)
       /\ Cardinality(UpdatesOf(k))
             = Cardinality(ExpectedUpdates(passes[k].pattern, passes[k].value))

\* A pass returned that updated the indirect kid of a matching direct field
\* and left a field of another signer alone.
C20_Witness ==
    \E k \in 1..Len(passes), n \in 1..Len(doc.Fields), m \in 1..Len(doc.Fields) :
       /\ n \in FieldsOfSigner(passes[k].pattern)
       /\ doc.Fields[n].id = 0
       /\ IdsOfField(doc.Fields[n]) # {}
       /\ IdsOfField(doc.Fields[n]) \subseteq {updated[u].id : u \in UpdatesOf(k)}
       /\ m \notin FieldsOfSigner(passes[k].pattern)
       /\ Has(doc.Fields[m].dict, "T")
       /\ doc.Fields[m].id \notin {updated[u].id : u \in 1..Len(updated)}

\* The object numbers of a field and of its kids in the order
\* updateFieldObject visits them, direct objects left out.
VisitOrder(fieldVal) ==
    SelectSeq(<<fieldVal.id>>
              \o (IF Has(fieldVal.dict, "Kids")
                  THEN [k \in 1..Len(fieldVal.dict.Kids) |-> fieldVal.dict.Kids[k].id]
                  ELSE <<>>),
              LAMBDA id : id # 0)

\* The objects a pass is to update, in the order of AcroForm/Fields.
OrderedUpdates(pattern, value) ==
    IF signData.SignerUID = <<>> \/ value = <<>> \/ doc.AcroForm # "fields"
    THEN <<>>
    ELSE Concat([n \in 1..Len(doc.Fields) |->
                    IF n \in FieldsOfSigner(pattern) THEN VisitOrder(doc.Fields[n])
                    ELSE <<>>])

\* The objects pass k updated, in order.
UpdatedBy(k) ==
    [n \in 1..(passes[k].last - passes[k].first + 1) |->
        updated[passes[k].first + n - 1].id]

\* The positions of a sequence of objects whose update fails.
Failing(ids) == {n \in 1..Len(ids) : ids[n] \in updateErrs}

\* The position in AcroForm/Fields of the field an object belongs to.
FieldOf(id) == CHOOSE n \in 1..Len(doc.Fields) : id \in IdsOfField(doc.Fields[n])

\* C21: when the update of a matched field or of one of its kids fails, the
\* pass returns that error at once: the objects before the failing one were
\* updated, in order, and no later kid and no later field is examined or
\* updated; a pass none of whose updates fails returns nil after them all.
C21_FailFast ==
    \A k \in 1..Len(passes) :
       LET ids == OrderedUpdates(passes[k].pattern, passes[k].value) IN
       IF Failing(ids) = {}
       THEN passes[k].err = Nil /\ UpdatedBy(k) = ids
       ELSE LET n == CHOOSE p \in Failing(ids) : \A q \in Failing(ids) : p <= q IN
            /\ passes[k].err = Ptr(ids[n])
            /\ UpdatedBy(k) = SubSeq(ids, 1, n - 1)
            /\ passes[k].examined = FieldOf(ids[n])

\* A pass returned the error of a kid after updating the kid's parent, with
\* another kid and another field of the signer still to come.
C21_Witness ==
    \E k \in 1..Len(passes) :
       /\ passes[k].err # Nil
       /\ UpdatedBy(k) # <<>>
       /\ Len(UpdatedBy(k)) + 2
             < Len(OrderedUpdates(passes[k].pattern, passes[k].value))
       /\ passes[k].examined < Len(doc.Fields)
       /\ passes[k].examined + 1 \in FieldsOfSigner(passes[k].pattern)
       /\ doc.Fields[passes[k].examined].id # passes[k].err[1]

(***************************************************************************)
(* createAppearance: the visible signature appearance.                     *)
(***************************************************************************)
\* What Appearance.Image holds: nothing, an image of a format image.Decode
\* knows (a PNG with or without alpha channel, a JPEG, a GIF), or bytes that
\* are no image.
ImageKinds == {"none", "jpeg", "png", "pngAlpha", "gif", "garbage"}

\* createImageXObject(): an error when the image cannot be decoded or its
\* format is neither jpeg nor png; a soft mask for a PNG with alpha channel.
createImageXObject(image) ==
    [err |-> image \in {"gif", "garbage"}, mask |-> image = "pngAlpha"]

\* An operator of a content stream, with the string it shows if any.
Op(name) == [op |-> name, arg |-> <<>>]

\* drawText(buffer, text, fontSize, x, y)
drawText(text) ==
    <<Op("q"), Op("BT"), Op("Tf"), Op("Td"), Op("rg"),
      [op |-> "Tj", arg |-> text], Op("ET"), Op("Q")>>

\* drawImage(buffer, rectWidth, rectHeight)
drawImage == <<Op("q"), Op("q"), Op("cm"), Op("/Im1 Do"), Op("Q"), Op("Q")>>

\* Mutant: the text is left out whenever there is an image.
shouldDisplayTextMutNoWatermark(a) == a.Image = "none"
\* shouldDisplayText := context.SignData.Appearance.ImageAsWatermark || !hasImage
shouldDisplayText(a) == a.ImageAsWatermark \/ a.Image = "none"

\* The XObject createAppearance returns when nothing failed: its /BBox, the
\* keys of its /Resources, its content stream and the number of objects
\* added for the image.
appearanceXObject(a, hasImage, displayText, mask) ==
    [err |-> FALSE,
     BBox |-> <<0, 0, a.rect[3] - a.rect[1], a.rect[4] - a.rect[2]>>,
     Resources |-> (IF hasImage THEN <<"XObject">> ELSE <<>>)
                   \o (IF displayText THEN <<"Font">> ELSE <<>>),
     stream |-> (IF hasImage THEN drawImage ELSE <<>>)
                \o (IF displayText THEN drawText(a.Name) ELSE <<>>),
     addedObjects |-> IF ~hasImage THEN 0 ELSE IF mask THEN 2 ELSE 1]

\* createAppearance(rect)
createAppearance(a) ==
    IF a.rect[3] - a.rect[1] < Tenths \/ a.rect[4] - a.rect[2] < Tenths
    THEN [err |-> TRUE]
    ELSE IF a.Image # "none" /\ (createImageXObject(a.Image).err \/ a.addObjectFails)
    THEN [err |-> TRUE]
    ELSE appearanceXObject(a, a.Image # "none", shouldDisplayText(a),
                           createImageXObject(a.Image).mask)

(***************************************************************************)
(* SpecSigAppearance: createAppearance on the rectangles, images and names *)
(* of a signature.                                                         *)
(***************************************************************************)
\* Widths and heights of signature rectangles, in tenths of a point.
SigSizes == {0, 5, 10, 750}

InitSigAppearance ==
    /\ \E w \in SigSizes, h \in SigSizes, image \in ImageKinds, watermark \in BOOLEAN,
          name \in {<<>>, <<"J">>}, fails \in BOOLEAN :
          sigApp = [rect |-> <<4000, 500, 4000 + w, 500 + h>>, Image |-> image,
                    ImageAsWatermark |-> watermark, Name |-> name,
                    addObjectFails |-> fails]
    /\ sigOut = Nil
    /\ pixel = <<>>
    /\ pixelOut = <<>>
    /\ IdleVerify /\ IdleMatch /\ IdleDate /\ IdleLayout /\ IdleDA /\ IdleName
    /\ IdleAppearance /\ IdleFill

\* appearance, err := context.createAppearance(rect)
CreateAppearance ==
    /\ sigOut = Nil
    /\ sigOut' = Ptr(createAppearance(sigApp))
    /\ UNCHANGED <<verifyVars, field, matched, date, dateString, layoutVars, daVars,
                   nameVars, apVars, fillVars, sigApp, pixel, pixelOut>>

NextSigAppearance == CreateAppearance

SpecSigAppearance == InitSigAppearance /\ [][NextSigAppearance]_vars

\* The operators of the returned appearance's content stream.
Drawn == {sigOut[1].stream[n].op : n \in 1..Len(sigOut[1].stream)}
\* The keys of the returned appearance's /Resources.
ResourceKeys == {sigOut[1].Resources[n] : n \in 1..Len(sigOut[1].Resources)}

\* C22: in every appearance createAppearance returns, the name is shown if
\* and only if ImageAsWatermark is set or no image is supplied, the image is
\* drawn if and only if one is supplied, the /Font resource is there exactly
\* with the text and /XObject /Im1 exactly with the image, and at least one
\* of the two is drawn.
C22_TextAndImage ==
    (sigOut # Nil /\ ~sigOut[1].err) =>
       /\ "Tj" \in Drawn <=> (sigApp.ImageAsWatermark \/ sigApp.Image = "none")
       /\ "/Im1 Do" \in Drawn <=> sigApp.Image # "none"
       /\ "Font" \in ResourceKeys <=> "Tj" \in Drawn
       /\ "XObject" \in ResourceKeys <=> "/Im1 Do" \in Drawn
       /\ "Tj" \in Drawn \/ "/Im1 Do" \in Drawn

\* An appearance with an image as watermark under the name was returned.
C22_Witness ==
    /\ sigOut # Nil /\ ~sigOut[1].err
    /\ sigApp.ImageAsWatermark /\ sigApp.Image = "pngAlpha"
    /\ {"Tj", "/Im1 Do"} \subseteq Drawn
    /\ \E n \in 1..Len(sigOut[1].stream) :
          sigOut[1].stream[n].op = "Tj" /\ sigOut[1].stream[n].arg = <<"J">>

(***************************************************************************)
(* unpremultiply and unpremultiply64 (sign package).  A byte is reduced    *)
(* modulo 2^8 and a uint16 modulo 2^16.  A uint64 is held as <<hi, lo>>,   *)
(* its two low 16-bit limbs: the operands are below 2^16, so products stay *)
(* below 2^32 and the upper limbs of the 64 bits are zero.                 *)
(***************************************************************************)
Byte == 256                  \* 2^8: byte(x) is x % Byte
Limb == 65536                \* 2^16: uint16(x) is x % Limb
ChannelMax8 == 255           \* the largest 8-bit channel value
ChannelMax16 == 65535        \* the largest 16-bit channel value

\* x * y for x, y below 2^16, as <<hi, lo>>: x is split into its two bytes so
\* that no partial product reaches 2^24.
Mul64(x, y) ==
    LET p0 == (x % Byte) * y
        p1 == (x \div Byte) * y
        lo == (p1 % Byte) * Byte + p0
    IN <<p1 \div Byte + lo \div Limb, lo % Limb>>

\* w / a for w = <<hi, lo>> and 0 < a < 2^16, as <<hi, lo>>: long division
\* over the four bytes of w.
Div64(w, a) ==
    LET d == <<w[1] \div Byte, w[1] % Byte, w[2] \div Byte, w[2] % Byte>>
        t2 == (d[1] % a) * Byte + d[2]
        t3 == (t2 % a) * Byte + d[3]
        t4 == (t3 % a) * Byte + d[4]
    IN <<(d[1] \div a) * Byte + t2 \div a, (t3 \div a) * Byte + t4 \div a>>

\* Mutant: the colour is not reduced to 8 bits before the division.
channel8MutNoShift(c, a8) ==
    IF (c * 255) \div a8 > 255 THEN 255 ELSE ((c * 255) \div a8) % Byte
\* rOut := (uint32(r >> 8) * 255) / a32, clamped to 255; byte(rOut)
channel8(c, a8) ==
    IF ((c \div Byte) * 255) \div a8 > 255 THEN 255
    ELSE (((c \div Byte) * 255) \div a8) % Byte

\* unpremultiply(r, g, b, a): a8 = byte(a >> 8)
unpremultiply(r, g, b, a) ==
    IF (a \div Byte) % Byte = 0 THEN <<0, 0, 0, 0>>
    ELSE <<channel8(r, (a \div Byte) % Byte), channel8(g, (a \div Byte) % Byte),
           channel8(b, (a \div Byte) % Byte), (a \div Byte) % Byte>>

\* rOut := (uint64(r) * 65535) / a64, clamped to 65535; uint16(rOut)
channel16(c, a) ==
    IF Div64(Mul64(c, 65535), a)[1] > 0 THEN 65535
    ELSE Div64(Mul64(c, 65535), a)[2] % Limb

\* unpremultiply64(r, g, b, a)
unpremultiply64(r, g, b, a) ==
    IF a = 0 THEN <<0, 0, 0, 0>>
    ELSE <<channel16(r, a), channel16(g, a), channel16(b, a), a % Limb>>

(***************************************************************************)
(* SpecPixel: one premultiplied pixel, as color.RGBA() returns it, handed  *)
(* to unpremultiply and to unpremultiply64.                                *)
(***************************************************************************)
\* The channel values a pixel is built from.
PixelLevels == {0, 1, 255, 256, 257, 32768, 65280, 65535}

InitPixel ==
    /\ \E a \in PixelLevels :
          \E r \in {c \in PixelLevels : c <= a}, g \in {c \in PixelLevels : c <= a},
             b \in {c \in PixelLevels : c <= a} :
                pixel = [r |-> r, g |-> g, b |-> b, a |-> a]
    /\ pixelOut = [rgba8 |-> Nil, rgba16 |-> Nil]
    /\ sigApp = <<>>
    /\ sigOut = <<>>
    /\ IdleVerify /\ IdleMatch /\ IdleDate /\ IdleLayout /\ IdleDA /\ IdleName
    /\ IdleAppearance /\ IdleFill

\* r8, g8, b8, a8 := unpremultiply(r, g, b, a)
Unpremultiply ==
    /\ pixelOut.rgba8 = Nil
    /\ pixelOut' = [pixelOut EXCEPT
                       !.rgba8 = Ptr(unpremultiply(pixel.r, pixel.g, pixel.b, pixel.a))]
    /\ UNCHANGED <<verifyVars, field, matched, date, dateString, layoutVars, daVars,
                   nameVars, apVars, fillVars, sigApp, sigOut, pixel>>

\* r16, g16, b16, a16 := unpremultiply64(r, g, b, a)
Unpremultiply64 ==
    /\ pixelOut.rgba16 = Nil
    /\ pixelOut' = [pixelOut EXCEPT
                       !.rgba16 = Ptr(unpremultiply64(pixel.r, pixel.g, pixel.b, pixel.a))]
    /\ UNCHANGED <<verifyVars, field, matched, date, dateString, layoutVars, daVars,
                   nameVars, apVars, fillVars, sigApp, sigOut, pixel>>

NextPixel == Unpremultiply \/ Unpremultiply64

SpecPixel == InitPixel /\ [][NextPixel]_vars

\* <<hi, lo>> is at most <<hi2, lo2>>.
Leq64(w, v) == w[1] < v[1] \/ (w[1] = v[1] /\ w[2] <= v[2])

\* q is min(max, floor(c * max / a)) for c, a, q below 2^16: either the
\* quotient is below max and q * a <= c * max < (q + 1) * a, or q is max and
\* max * a <= c * max.
IsClampedQuotient(q, c, a, max) ==
    /\ q \in 0..max
    /\ Leq64(Mul64(q, a), Mul64(c, max))
    /\ q < max => ~Leq64(Mul64(q + 1, a), Mul64(c, max))

\* The colour channels of the pixel, in the order of the results.
Channels == <<pixel.r, pixel.g, pixel.b>>

\* C30: for a premultiplied pixel with r, g, b <= a <= 65535, unpremultiply
\* returns (0,0,0,0) when a >> 8 is 0 and otherwise each colour is
\* min(255, floor((c >> 8) * 255 / (a >> 8))), within 0..255; unpremultiply64
\* returns (0,0,0,0) when a is 0 and otherwise min(65535, floor(c * 65535 / a)),
\* within 0..65535; a fully opaque pixel comes back unchanged from both.
C30_Unpremultiplied ==
    /\ (pixelOut # <<>> /\ pixelOut.rgba8 # Nil) =>
          LET out == pixelOut.rgba8[1]
              a8 == pixel.a \div Byte
          IN /\ a8 = 0 => out = <<0, 0, 0, 0>>
             /\ a8 # 0 =>
                   \A k \in 1..3 :
                       IsClampedQuotient(out[k], Channels[k] \div Byte, a8, ChannelMax8)
             /\ pixel.a = ChannelMax16 =>
                   out = <<pixel.r \div Byte, pixel.g \div Byte, pixel.b \div Byte,
                           ChannelMax8>>
    /\ (pixelOut # <<>> /\ pixelOut.rgba16 # Nil) =>
          LET out == pixelOut.rgba16[1] IN
          /\ pixel.a = 0 => out = <<0, 0, 0, 0>>
          /\ pixel.a # 0 =>
                \A k \in 1..3 :
                    IsClampedQuotient(out[k], Channels[k], pixel.a, ChannelMax16)
          /\ pixel.a = ChannelMax16 => out = <<pixel.r, pixel.g, pixel.b, pixel.a>>

\* C30 witness: a half-transparent pixel with r = a = 32768, g = 257 and
\* b = 0, un-premultiplied by both functions: r becomes the largest value of
\* the channel and g is scaled up.
C30_Witness ==
    /\ pixelOut # <<>>
    /\ pixel = [r |-> 32768, g |-> 257, b |-> 0, a |-> 32768]
    /\ pixelOut.rgba8 = Ptr(<<255, 1, 0, 128>>)
    /\ pixelOut.rgba16 = Ptr(<<65535, 513, 0, 32768>>)

(***************************************************************************)
(* Properties of the dictionaries written by updateFieldObject.            *)
(***************************************************************************)
\* The entries of update u that carry the key.
EntriesFor(u, key) == {n \in 1..Len(updated[u].buf) : updated[u].buf[n].key = key}

\* The value the pass that made update u writes.
ValueWritten(u) ==
    IF \E k \in 1..Len(passes) : u \in UpdatesOf(k)
    THEN passes[CHOOSE k \in 1..Len(passes) : u \in UpdatesOf(k)].value
    ELSE fillPass[1].value

\* The value a kept key is written with: /T decoded, /DA normalized, every
\* other key as the original has it.
Kept(orig, key) ==
    IF key = "T" THEN decodeFieldName(orig.T)
    ELSE IF key = "DA" THEN normalizeDA(orig.DA)
    ELSE orig[key]

\* The replacement u has the key, with no other value than val.
Carries(u, key, val) ==
    /\ EntriesFor(u, key) # {}
    /\ \A n \in EntriesFor(u, key) : updated[u].buf[n].val = val

C24_KeysOnce ==
    \A u \in 1..Len(updated) :
       /\ \A key \in {KeyOrder[n] : n \in 1..Len(KeyOrder)} :
             Cardinality(EntriesFor(u, key)) <= 1
       /\ Cardinality(EntriesFor(u, "V")) = 1
       /\ Cardinality(EntriesFor(u, "AS")) = 1

\* What does hold of the keys: only /AS can occur twice, and does when the
\* original has an /AS.
OnlyASTwice ==
    \A u \in 1..Len(updated) :
       /\ \A key \in {KeyOrder[n] : n \in 1..Len(KeyOrder)} \ {"AS"} :
             Cardinality(EntriesFor(u, key)) <= 1
       /\ Cardinality(EntriesFor(u, "V")) = 1
       /\ Cardinality(EntriesFor(u, "AS"))
             = IF Has(OriginalOf(updated[u].id), "AS") THEN 2 ELSE 1

(***************************************************************************)
(* The results of the external revocation checks, on every path (Spec).    *)
(***************************************************************************)
\* C25: in every result of performExternalOCSPCheck and
\* performExternalCRLCheck Valid is true if and only if Warning is empty, a
\* CRL result with IsRevoked is Valid, and a Valid result was returned on a
\* response with status 200 that was read and parsed.
C25_ValidIffNoWarning ==
    /\ \A cat \in {"ocsp", "crl"} : \A k \in 1..Len(ResultsOf(cat)) :
          ResultsOf(cat)[k].Valid <=> ResultsOf(cat)[k].Warning.msg = ""
    /\ \A k \in 1..Len(crlResults) : crlResults[k].IsRevoked => crlResults[k].Valid
    /\ \A cat \in {"ocsp", "crl"} :
          (Returned_(cat) /\ LastResult(cat).Valid) =>
             /\ requests # <<>>
             /\ requests[Len(requests)].answer.err = ""
             /\ requests[Len(requests)].answer.StatusCode = 200
             /\ ~requests[Len(requests)].answer.readErr
             /\ ~requests[Len(requests)].answer.parseErr

\* A CRL check returned a revoked certificate from its second distribution
\* point after the first one failed, and an OCSP check before it returned a
\* warning.
C25_Witness ==
    /\ Returned_("crl")
    /\ LastResult("crl").Valid /\ LastResult("crl").IsRevoked
    /\ LastResult("crl").Warning.msg = ""
    /\ Len(requests) = 2
    /\ ocspResults # <<>>
    /\ ~ocspResults[1].Valid /\ ocspResults[1].Warning.msg # ""

(***************************************************************************)
(* SpecFallback: matchFieldSigner on field names that are not of the form  *)
(* of the pass's pattern.                                                  *)
(***************************************************************************)
\* The parts field names are put together from: something before the
\* prefix, a prefix, a number, the "signer_" part, and a tail, which may be
\* a whole name of the initials pattern.
MaxShortTailLen == 2  \* characters of the enumerated tails

NameLeads == {<<>>, <<"x">>}
NamePrefixes == {InitialsPattern.prefix, DatePattern.prefix, <<>>}
NameNumbers == {<<>>, <<"7">>, <<"p">>}
NameInfixes == {InfixLit, SignerLit, <<"_", "s", "i", "g", "n", "e", "r">>, <<"_">>}
NameTails ==
    Strings({"J", "4", "a", "g", "_"}, 0, MaxShortTailLen)
    \cup {FieldName(InitialsPattern, SignerJ), FieldName(DatePattern, <<"4", "a">>)}

InitFallback ==
    /\ \E pattern \in {InitialsPattern, DatePattern},
          lead \in NameLeads, prefix \in NamePrefixes, num \in NameNumbers,
          infix \in NameInfixes, tail \in NameTails,
          uid \in {SignerJ, hexEncodeToString(SignerJ)} :
          field = [name |-> Concat(<<lead, prefix, num, infix, tail>>),
                   pattern |-> pattern, uid |-> uid, tail |-> tail]
    /\ matched = <<>>
    /\ options = <<>> /\ cert = <<>> /\ ocspReqErr = FALSE /\ server = <<>>
    /\ pc = "idle" /\ i = 0 /\ client = NilClient /\ lastErr = Nil
    /\ result = NewOCSPResult /\ requests = <<>> /\ calls = <<>>
    /\ ocspResults = <<>> /\ crlResults = <<>>
    /\ IdleHTTPClient /\ IdleDate /\ IdleSign

SpecFallback == InitFallback /\ [][NextMatch]_vars

\* The positions at which "signer_" occurs in the name.
SignerAt(name) == {k \in 1..Len(name) : OccursAt(name, SignerLit, k)}

\* The hexadecimal digits of the name after its first "signer_".
HexAfterSigner(name) ==
    {k \in 1..Len(name) :
        /\ IsHexDigit(name[k])
        /\ \A p \in SignerAt(name) : \E q \in SignerAt(name) : q <= p /\ q + Len(SignerLit) <= k}

\* The first run of hexadecimal digits after the first "signer_".
FirstHexRun(name) ==
    LET first == CHOOSE k \in HexAfterSigner(name) : \A m \in HexAfterSigner(name) : k <= m
        last == CHOOSE k \in first..Len(name) :
                   /\ \A m \in first..k : IsHexDigit(name[m])
                   /\ (k = Len(name) \/ ~IsHexDigit(name[k + 1]))
    IN SubSeq(name, first, last)

\* The three accepted forms of the uid.
ThreeForms(signer, uid) ==
    \/ signer = uid
    \/ signer = hexEncodeToString(uid)
    \/ (~hexDecodeString(signer).err /\ hexDecodeString(signer).bs = uid)

\* The other pattern than the pass's.
OtherPattern == IF field.pattern = InitialsPattern THEN DatePattern ELSE InitialsPattern

\* The field name is one of the other pattern: prefix, digits, "_signer_"
\* and a signer.
OfOtherPattern ==
    /\ HasPrefix(field.name, OtherPattern.prefix)
    /\ FindStringSubmatch(OtherPattern, field.name) # <<>>
    /\ FindStringSubmatch(OtherPattern, field.name)[1] = field.name

\* What does hold of the fallback: a name the pass's regex does not match
\* is matched exactly when it starts with the prefix, contains "signer_" and
\* the first run of hexadecimal digits after it is the uid in one of the
\* three forms.
FallbackRule ==
    (matched # <<>> /\ FindStringSubmatch(field.pattern, field.name) = <<>>) =>
        (matched[1].ok <=>
            /\ HasPrefix(field.name, field.pattern.prefix)
            /\ SignerAt(field.name) # {}
            /\ HexAfterSigner(field.name) # {}
            /\ ThreeForms(FirstHexRun(field.name), field.uid))

\* C26: a name the pass's regex does not match is matched only through the
\* fallback (prefix, "signer_", first run of hexadecimal digits in one of
\* the three forms), and a field of one pattern is never matched by the
\* pass of the other pattern.
C26_FallbackMatching ==
    /\ FallbackRule
    /\ (matched # <<>> /\ OfOtherPattern) => ~matched[1].ok

====
